---- MODULE Spec2Model ----
(***************************************************************************)
(* Naqsh Resort booking backend: the price calculation of                  *)
(* server-secure.js, its session store and auth guard, the promise-chained *)
(* write lock of the bookings file, and the legacy server.js handlers that *)
(* write the same bookings file.                                           *)
(*                                                                         *)
(* Time is counted in minutes since 2025-01-01T00:00Z.  A date string      *)
(* "YYYY-MM-DD" is the number of days since 2025-01-01; a negative number  *)
(* stands for a ten-character string that does not parse as a date.        *)
(***************************************************************************)
EXTENDS Integers, Sequences, FiniteSets, TLC

VARIABLES
    tz,           \* time zone of the server process (fixed at start)
    priceArgs,    \* arguments of the calculatePrice call under study
    priceResult,  \* its return value, NoResult before the call
    program,      \* the program that was started: server-secure.js or server.js
    now,          \* Date.now(), in minutes
    dataFile,     \* data/bookings.json: [bookings, inquiries]
    sessionsFile, \* data/sessions.json: [parseable, sessions]
    dataLock,     \* the promise in dataLock: the request that made it, 0 at start
    resolved,     \* the lock promises that are resolved
    dataWriting,  \* requests whose fs.writeFile of the bookings file is in progress
    sessWriting,  \* requests whose fs.writeFile of the sessions file is in progress
    writeCalls,   \* history: requests in the order they called writeData
    writeStarts,  \* history: requests in the order their bookings file write began
    reqs,         \* the requests: what was asked, where the handler is, the response
    tornIO,       \* history: a read met a truncated file, or a write left a garbled one
    mvpCount,     \* server.js: number of requests handled
    rateLimitStore, \* the rate limiter's Map: client IP -> times of its requests
    clockMs,      \* Date.now() of the rate limiter, in ms since the server started
    rateTicks,    \* history: number of times clockMs advanced
    arrivals      \* history: per client IP, each request's time and fate

priceVars == <<priceArgs, priceResult>>
rateVars == <<rateLimitStore, clockMs, rateTicks, arrivals>>
serverVars == <<program, now, dataFile, sessionsFile, dataLock, resolved,
                dataWriting, sessWriting, writeCalls, writeStarts, reqs, tornIO,
                mvpCount>>
vars == <<tz, priceArgs, priceResult, program, now, dataFile, sessionsFile,
          dataLock, resolved, dataWriting, sessWriting, writeCalls, writeStarts,
          reqs, tornIO, mvpCount, rateLimitStore, clockMs, rateTicks, arrivals>>

-----------------------------------------------------------------------------
(* Bounds of the model                                                     *)

\* dates 2025-01-01 .. 2025-01-(1+JanDays) are request inputs
JanDays == 9
\* dates 2025-03-28 .. 2025-03-(28+MarDays) are request inputs
MarDays == 3
\* longest stay (checkOut - checkIn, in days) a price request asks for
MaxStay == 10
\* number of requests server-secure.js receives
NumReqs == 3
\* number of clock steps, of TickMinutes each
MaxTicks == 1
\* number of requests server.js handles
MaxMvpRequests == 3
\* requests served one after the other in the price specification
PricedReqs == 2
\* the tokens a header or a cookie carries, and the requests of the header
\* specification
MaxHeaderValue == 2
HeaderReqs == 2
\* the rate limiter's clock advances MaxRateTicks times, by half a window
\* or by a whole one
MaxRateTicks == 1
\* requests the client that bursts sends, and requests of every other IP
MaxBurst == 102
MaxOther == 1
\* requests served one after the other in the validation specification
ValidatedReqs == 2
\* requests handled concurrently in the update specification
UpdateReqs == 3
LockReqs == 3

-----------------------------------------------------------------------------
(* Calendar and time zones (ECMAScript Date)                               *)

MinPerDay == 24 * 60

\* 2025-01-01 is a Wednesday (getDay() = 3)
EpochDow == 3

\* day index of 2025-03-28
Mar28 == 31 + 28 + 27

NoDst == 0 - 1

\* std: minutes east of UTC in winter; dstAt: instant of the 2025 spring
\* forward transition (NoDst when the zone has none)
UTC == [name |-> "UTC", std |-> 0, dstAt |-> NoDst]
Kolkata == [name |-> "Asia/Kolkata", std |-> 330, dstAt |-> NoDst]
London == [name |-> "Europe/London", std |-> 0, dstAt |-> (Mar28 + 2) * MinPerDay + 60]
NewYork == [name |-> "America/New_York", std |-> 0 - 300, dstAt |-> (31 + 28 + 8) * MinPerDay + 7 * 60]

TimeZones == {UTC, Kolkata, London, NewYork}

\* offset of local time from UTC at instant t
Offset(zone, t) ==
    IF zone.dstAt # NoDst /\ t >= zone.dstAt THEN zone.std + 60 ELSE zone.std

LocalTime(zone, t) == t + Offset(zone, t)

\* UTC instant of a local wall-clock time; a wall time inside the skipped
\* hour is read with the offset in force before the transition
LocalToUTC(zone, wall) ==
    IF zone.dstAt = NoDst \/ wall - zone.std < zone.dstAt + 60
    THEN wall - zone.std
    ELSE wall - zone.std - 60

NaN == 0 - 1

\* a date string whose day is past the end of its month, as "2025-02-30",
\* is the number of the day it overflows to plus DayOverflow
DayOverflow == 1000

\* new Date("YYYY-MM-DD"): midnight UTC of that date, NaN when unparseable;
\* a day up to 31 past the end of the month carries into the next month
NewDate(s) ==
    IF s < 0 THEN NaN
    ELSE IF s >= DayOverflow THEN (s - DayOverflow) * MinPerDay
    ELSE s * MinPerDay

IsNaN(t) == t = NaN

\* d.getDay(): day of week of the local date
GetDay(zone, t) == ((LocalTime(zone, t) \div MinPerDay) + EpochDow) % 7

\* d.setDate(d.getDate() + 1): same local wall-clock time on the next local day
SetDateNext(zone, t) == LocalToUTC(zone, LocalTime(zone, t) + MinPerDay)

\* d.toISOString().split('T')[0]: the UTC calendar date
ToISODate(t) == t \div MinPerDay

-----------------------------------------------------------------------------
(* CONFIG.PRICING                                                          *)

GroupRate == 60000

Rooms ==
    [r \in {"Deluxe Garden", "Premium Valley", "Family Suite"} |->
        CASE r = "Deluxe Garden" ->
                [weekday |-> [ep |-> 1700, mapai |-> 2700],
                 weekend |-> [ep |-> 2200, mapai |-> 3200]]
          [] r = "Premium Valley" ->
                [weekday |-> [ep |-> 2000, mapai |-> 3000],
                 weekend |-> [ep |-> 2600, mapai |-> 3600]]
          [] r = "Family Suite" ->
                [weekday |-> [ep |-> 2700, mapai |-> 4300],
                 weekend |-> [ep |-> 3500, mapai |-> 5500]]]

\* CONFIG.PRICING.rooms is an object literal: rooms[roomType] also finds the
\* properties it inherits from Object.prototype, which are no rate entries
InheritedProperties == {"constructor"}

\* rooms[roomType] is truthy
RoomFound(roomType) == roomType \in DOMAIN Rooms \cup InheritedProperties

-----------------------------------------------------------------------------
(* calculatePrice                                                          *)

\* isWeekend = (dayOfWeek === 5 || dayOfWeek === 6)
IsWeekendDay(dayOfWeek) == dayOfWeek = 5 \/ dayOfWeek = 6

\* the room rate with every plan but EP priced as MAPAI
NightlyRateUnknownAsMapai(room, mealPlan, isWeekend) ==
    LET planKey == IF mealPlan = "EP" THEN "ep" ELSE "mapai"
    IN  IF isWeekend THEN room.weekend[planKey] ELSE room.weekday[planKey]

\* nightlyRate of one night of a room
NightlyRate(room, mealPlan, isWeekend) ==
    LET planKey == IF mealPlan = "MAPAI" THEN "mapai" ELSE "ep"
    IN  IF isWeekend THEN room.weekend[planKey] ELSE room.weekday[planKey]

\* the nightly rate with a weekend surcharge on the group rate
RateOfNightGroupWeekend(roomType, mealPlan, isGroupBooking, isWeekend) ==
    IF isGroupBooking
    THEN IF isWeekend THEN GroupRate + 10000 ELSE GroupRate
    ELSE NightlyRate(Rooms[roomType], mealPlan, isWeekend)

\* nightlyRate: the group rate, or the rate of the room found
RateOfNight(roomType, mealPlan, isGroupBooking, isWeekend) ==
    IF isGroupBooking THEN GroupRate
    ELSE NightlyRate(Rooms[roomType], mealPlan, isWeekend)

\* the for loop over d, from the state (d, total, breakdown) on
RECURSIVE PriceLoop(_, _, _, _, _, _, _, _)
PriceLoop(zone, d, endDate, roomType, mealPlan, isGroupBooking, total, breakdown) ==
    IF ~(d < endDate)
    THEN [total |-> total,
          nights |-> Len(breakdown),
          breakdown |-> breakdown,
          roomType |-> IF isGroupBooking THEN "Full Resort" ELSE roomType,
          mealPlan |-> IF isGroupBooking THEN "Included" ELSE mealPlan]
    ELSE LET isWeekend == IsWeekendDay(GetDay(zone, d))
             dateStr == ToISODate(d)
         IN  IF ~isGroupBooking /\ ~RoomFound(roomType)
             THEN [error |-> "Invalid room type"]
             ELSE IF ~isGroupBooking /\ roomType \in InheritedProperties
             \* room.weekend and room.weekday are undefined: indexing them throws
             THEN [thrown |-> "TypeError"]
             ELSE LET nightlyRate ==
                          RateOfNight(roomType, mealPlan, isGroupBooking, isWeekend)
                  IN  PriceLoop(zone, SetDateNext(zone, d), endDate, roomType,
                                mealPlan, isGroupBooking, total + nightlyRate,
                                Append(breakdown,
                                       [date |-> dateStr,
                                        isWeekend |-> isWeekend,
                                        rate |-> nightlyRate]))

\* the calculation with a same-day stay let through
calculatePriceSameDayAllowed(zone, checkIn, checkOut, roomType, mealPlan, isGroupBooking) ==
    LET startDate == NewDate(checkIn)
        endDate == NewDate(checkOut)
    IN  IF IsNaN(startDate) \/ IsNaN(endDate)
        THEN [error |-> "Invalid dates"]
        ELSE IF startDate > endDate
        THEN [error |-> "Check-out must be after check-in"]
        ELSE PriceLoop(zone, startDate, endDate, roomType, mealPlan,
                       isGroupBooking, 0, <<>>)

\* the calculation with a surcharge per booking already stored
calculatePriceByLoad(zone, checkIn, checkOut, roomType, mealPlan, isGroupBooking) ==
    LET startDate == NewDate(checkIn)
        endDate == NewDate(checkOut)
    IN  IF IsNaN(startDate) \/ IsNaN(endDate)
        THEN [error |-> "Invalid dates"]
        ELSE IF startDate >= endDate
        THEN [error |-> "Check-out must be after check-in"]
        ELSE LET result == PriceLoop(zone, startDate, endDate, roomType, mealPlan,
                                     isGroupBooking, 0, <<>>)
             IN  IF "total" \in DOMAIN result
                 THEN [result EXCEPT !.total = @ + Len(dataFile.bookings)]
                 ELSE result

calculatePrice(zone, checkIn, checkOut, roomType, mealPlan, isGroupBooking) ==
    LET startDate == NewDate(checkIn)
        endDate == NewDate(checkOut)
    IN  IF IsNaN(startDate) \/ IsNaN(endDate)
        THEN [error |-> "Invalid dates"]
        ELSE IF startDate >= endDate
        THEN [error |-> "Check-out must be after check-in"]
        ELSE PriceLoop(zone, startDate, endDate, roomType, mealPlan,
                       isGroupBooking, 0, <<>>)

HasError(r) == "error" \in DOMAIN r
\* the call ended in an exception
Threw(r) == "thrown" \in DOMAIN r
\* the call returned the result object with total and breakdown
IsPrice(r) == "total" \in DOMAIN r

-----------------------------------------------------------------------------
(* Inputs                                                                  *)

\* a body field that is absent
Undefined == "undefined"

\* the isGroupBooking field as the JSON value it carries: true, false, or
\* the string "yes"
JsonTrue == "true"
JsonFalse == "false"
JsonYes == "\"yes\""
GroupFlags == {JsonTrue, JsonFalse, JsonYes}

\* ToBoolean(v), as in `if (v)` and `v || fallback`
Truthy(v) == v \notin {JsonFalse, Undefined, ""}

DateStrings == (0 .. JanDays) \cup (Mar28 .. Mar28 + MarDays) \cup {0 - 1}
RoomTypes == DOMAIN Rooms \cup {"Full Resort", "Presidential"} \cup InheritedProperties
MealPlans == {"EP", "MAPAI", "AP"}

NoResult == [pending |-> TRUE]

PriceArgs ==
    {a \in [checkIn : DateStrings, checkOut : DateStrings, roomType : RoomTypes,
            mealPlan : MealPlans, isGroupBooking : GroupFlags] :
        a.checkOut - a.checkIn <= MaxStay}

-----------------------------------------------------------------------------
(* server-secure.js: configuration, validators, stores                     *)

SECURE == "server-secure.js"
MVP == "server.js"

SESSION_EXPIRY_HOURS == 24
SessionTTL == SESSION_EXPIRY_HOURS * 60

ADMIN_USERNAME == "admin"
ADMIN_PASSWORD == "naqsh2025secure"

\* the server starts at 2025-01-02T12:00Z
StartNow == MinPerDay + 12 * 60
TickMinutes == 24 * 60
Today == StartNow \div MinPerDay

Reqs == 1 .. NumReqs

\* value.length of the strings requests carry
StrLen(v) ==
    CASE v = "" -> 0
      [] v = "A" -> 1
      [] v = "Asha" -> 4
      [] v = "12345" -> 5
      [] v = "9876543210" -> 10
      [] v = "98765<3210" -> 10
      [] v = "Need a quote" -> 12
      [] v = "Too short" -> 9
      [] OTHER -> 13

\* Validator.isString
IsString(value, minLen, maxLen) ==
    value # Undefined /\ StrLen(value) >= minLen /\ StrLen(value) <= maxLen

\* Validator.isPhone: digits, spaces, +, -, ( and ) only
IsPhone(value) ==
    IsString(value, 6, 20) /\ value \in {"9876543210"}

\* Validator.isDate: a ten-character string that parses
IsDate(value) == ~IsNaN(NewDate(value))

\* Validator.isRoomType
IsRoomType(value) == value \in DOMAIN Rooms \/ value = "Full Resort"

\* Validator.isMealPlan
IsMealPlan(value) == value \in {"EP", "MAPAI"}

\* isBookingStatus with a fourth status let through
IsBookingStatusOrRefunded(value) ==
    value \in {"Pending", "Confirmed", "Cancelled", "Refunded"}

\* Validator.isBookingStatus
IsBookingStatus(value) == value \in {"Pending", "Confirmed", "Cancelled"}

\* Validator.sanitizeString: '' for a non-string, else < and > removed,
\* then trimmed
SanitizeString(value) ==
    CASE value = Undefined -> ""
      [] value = " Deluxe Garden " -> "Deluxe Garden"
      [] value = "<Family Suite>" -> "Family Suite"
      [] value = "98765<3210" -> "987653210"
      [] OTHER -> value

\* today.setHours(0, 0, 0, 0): local midnight of the current local day
TodayMidnight(zone, t) ==
    LocalToUTC(zone, (LocalTime(zone, t) \div MinPerDay) * MinPerDay)

EmptyData == [bookings |-> <<>>, inquiries |-> <<>>]
EmptySessions == [parseable |-> TRUE, sessions |-> <<>>]

\* what fs.readFile can deliver: the content, or, while a write of the file
\* is in progress, the truncated file
ReadOutcomes(content, writers, truncated) ==
    {content} \cup (IF writers # {} THEN {truncated} ELSE {})

\* readData: the parsed file, the empty store when it does not parse
readData == ReadOutcomes(dataFile, dataWriting, EmptyData)

\* the sessions a complete read of the sessions file parses to
StoredSessions == IF sessionsFile.parseable THEN sessionsFile.sessions ELSE <<>>

\* readSessions: the parsed file, { sessions: [] } when it does not parse
readSessions == ReadOutcomes(StoredSessions, sessWriting, <<>>)

NoSession == [none |-> TRUE]
IsSession(x) == "username" \in DOMAIN x

\* validateSession granting a session when the store yields no sessions
FindSessionFailOpen(sessions, token, t) ==
    LET hits == {i \in 1 .. Len(sessions) :
                    sessions[i].token = token /\ sessions[i].expiresAt > t}
    IN  IF sessions = <<>>
        THEN [token |-> token, username |-> "admin", expiresAt |-> t + 1,
              createdAt |-> t]
        ELSE IF hits = {} THEN NoSession
        ELSE sessions[CHOOSE i \in hits : \A j \in hits : i <= j]

\* sessions.sessions.find(s => s.token === token && s.expiresAt > Date.now())
FindSession(sessions, token, t) ==
    LET hits == {i \in 1 .. Len(sessions) :
                    sessions[i].token = token /\ sessions[i].expiresAt > t}
    IN  IF hits = {} THEN NoSession
        ELSE sessions[CHOOSE i \in hits : \A j \in hits : i <= j]

\* createSession without its filter
LiveSessionsKeepingAll(sessions, t) == sessions

\* the filter of createSession: sessions not yet expired
LiveSessions(sessions, t) == SelectSeq(sessions, LAMBDA x : x.expiresAt > t)

\* the filter of deleteSession
WithoutToken(sessions, token) == SelectSeq(sessions, LAMBDA x : x.token # token)

\* data.bookings.findIndex(b => b.id === id), 0 for -1
FindIndex(bookings, id) ==
    LET hits == {i \in 1 .. Len(bookings) : bookings[i].id = id}
    IN  IF hits = {} THEN 0 ELSE CHOOSE i \in hits : \A j \in hits : i <= j

\* data.bookings.splice(index, 1)
Splice(seq, index) ==
    [i \in 1 .. Len(seq) - 1 |-> IF i < index THEN seq[i] ELSE seq[i + 1]]

\* list.sort((a, b) => new Date(b.createdAt) - new Date(a.createdAt)): stable,
\* newest first
RECURSIVE InsertByCreated(_, _)
InsertByCreated(sorted, x) ==
    IF sorted = <<>> THEN <<x>>
    ELSE IF Head(sorted).createdAt >= x.createdAt
         THEN <<Head(sorted)>> \o InsertByCreated(Tail(sorted), x)
         ELSE <<x>> \o sorted

RECURSIVE SortNewestFirst(_)
SortNewestFirst(list) ==
    IF list = <<>> THEN <<>>
    ELSE InsertByCreated(SortNewestFirst(SubSeq(list, 1, Len(list) - 1)),
                         list[Len(list)])

-----------------------------------------------------------------------------
(* server-secure.js: rate limiting                                         *)

RATE_LIMIT_WINDOW_MS == 60000
RATE_LIMIT_MAX_REQUESTS == 100
RateTickMs == RATE_LIMIT_WINDOW_MS \div 2
RateSteps == {RateTickMs, RATE_LIMIT_WINDOW_MS}

\* the clients: the socket's address and the X-Forwarded-For list, <<>> when
\* the header is absent
Clients ==
    {[remoteAddress |-> "10.0.0.1", forwardedFor |-> <<>>],
     [remoteAddress |-> "10.0.0.2", forwardedFor |-> <<>>],
     [remoteAddress |-> "10.0.0.9", forwardedFor |-> <<"10.0.0.2", "10.0.0.9">>]}

\* getClientIP: the first X-Forwarded-For entry, else the socket's address
getClientIP(req) ==
    IF req.forwardedFor # <<>> /\ Head(req.forwardedFor) # ""
    THEN Head(req.forwardedFor)
    ELSE IF req.remoteAddress # "" THEN req.remoteAddress
    ELSE "unknown"

ClientIPs == {getClientIP(c) : c \in Clients}

\* new Map(), map.set(key, value), map.delete(key)
EmptyMap == [ip \in {} |-> <<>>]
MapSet(map, key, value) ==
    [k \in DOMAIN map \cup {key} |-> IF k = key THEN value ELSE map[k]]
MapDelete(map, key) == [k \in DOMAIN map \ {key} |-> map[k]]

\* requests.filter(time => time > windowStart)
InWindow(times, t) ==
    SelectSeq(times, LAMBDA time : time > t - RATE_LIMIT_WINDOW_MS)

\* isRateLimited refusing the request that reaches the maximum
isRateLimitedAtMaximum(store, ip, t) ==
    LET had == IF ip \in DOMAIN store THEN store[ip] ELSE <<>>
        requests == Append(InWindow(had, t), t)
    IN  [store |-> MapSet(store, ip, requests),
         limited |-> Len(requests) >= RATE_LIMIT_MAX_REQUESTS]

\* isRateLimited(ip) at time t: the Map afterwards and the returned flag
isRateLimited(store, ip, t) ==
    LET had == IF ip \in DOMAIN store THEN store[ip] ELSE <<>>
        requests == Append(InWindow(had, t), t)
    IN  [store |-> MapSet(store, ip, requests),
         limited |-> Len(requests) > RATE_LIMIT_MAX_REQUESTS]

\* the body of the setInterval callback, one Map entry after the other
RECURSIVE CleanedUp(_, _, _)
CleanedUp(store, ips, t) ==
    IF ips = {} THEN store
    ELSE LET ip == CHOOSE x \in ips : TRUE
             valid == InWindow(store[ip], t)
         IN  CleanedUp(IF Len(valid) = 0 THEN MapDelete(store, ip)
                       ELSE MapSet(store, ip, valid),
                       ips \ {ip}, t)

-----------------------------------------------------------------------------
(* Requests                                                                *)

NoToken == 0
ForgedToken == NumReqs + 1
UnknownId == NumReqs + 1

\* a pathname is its segments, and the booking id that follows them (0: none)
Path(segs) == [segs |-> segs, id |-> 0]
BookingsPath == Path(<<"api", "bookings">>)
InquiriesPath == Path(<<"api", "inquiries">>)
StatsPath == Path(<<"api", "stats">>)
LoginPath == Path(<<"api", "auth", "login">>)
LogoutPath == Path(<<"api", "auth", "logout">>)
AuthCheckPath == Path(<<"api", "auth", "check">>)
CalculatePath == Path(<<"api", "calculate-price">>)
BookingPath(id) == [segs |-> <<"api", "bookings">>, id |-> id]

\* pathname.startsWith(p) for a route p
StartsWith(pathname, p) ==
    /\ Len(pathname.segs) >= Len(p.segs)
    /\ SubSeq(pathname.segs, 1, Len(p.segs)) = p.segs

\* pathname.startsWith(p + '/')
StartsWithSlash(pathname, p) ==
    /\ StartsWith(pathname, p)
    /\ Len(pathname.segs) > Len(p.segs) \/ pathname.id # 0

\* pathname.match(/^\/api\/bookings\/[A-Z0-9]+$/)
IsBookingPath(pathname) ==
    pathname.segs = BookingsPath.segs /\ pathname.id # 0

\* the headers a request carries: Authorization as its scheme and what
\* follows it, Cookie as the list of its name=value pairs
NoAuthorization == [scheme |-> "", value |-> NoToken]
Bearer(token) == [scheme |-> "Bearer", value |-> token]
NoHeaders == [authorization |-> NoAuthorization, cookie |-> <<>>]
\* what a client with a token sends
BearerHeaders(token) ==
    IF token = NoToken THEN NoHeaders
    ELSE [authorization |-> Bearer(token), cookie |-> <<>>]

\* the cookie names of the model in which /admin_token=([^;]+)/ finds a match:
\* the pattern is not anchored at the start of a cookie name
MatchingCookieNames == {"admin_token", "old_admin_token"}

\* cookies.match(/admin_token=([^;]+)/): the value of the leftmost match
RECURSIVE CookieMatch(_)
CookieMatch(cookies) ==
    IF cookies = <<>> THEN NoToken
    ELSE IF cookies[1].name \in MatchingCookieNames THEN cookies[1].value
    ELSE CookieMatch(Tail(cookies))

\* getTokenFromRequest: the Bearer token, else the cookie match, else null
getTokenFromRequest(req) ==
    IF req.headers.authorization.scheme = "Bearer"
    THEN req.headers.authorization.value
    ELSE CookieMatch(req.headers.cookie)

Response(status, message, data) ==
    [status |-> status, message |-> message, data |-> data]

NoResponse == [status |-> 0, message |-> "", data |-> <<>>]

IdleRequest ==
    [method |-> "", pathname |-> Path(<<>>), headers |-> NoHeaders,
     token |-> NoToken, body |-> [none |-> TRUE],
     pc |-> "idle", session |-> NoSession, data |-> EmptyData,
     sessions |-> <<>>, expiresAt |-> 0, prevLock |-> 0,
     response |-> NoResponse]

\* bodies of POST /api/bookings
BookingBodies ==
    {[guestName |-> "Asha", guestPhone |-> "9876543210",
      checkIn |-> Today + 1, checkOut |-> Today + 2,
      roomType |-> " Deluxe Garden ", mealPlan |-> "MAPAI",
      isGroupBooking |-> JsonFalse, totalAmount |-> 1],
     [guestName |-> "Asha", guestPhone |-> "9876543210",
      checkIn |-> Today + 1, checkOut |-> Today + 3,
      roomType |-> "Presidential", mealPlan |-> "AP",
      isGroupBooking |-> JsonTrue, totalAmount |-> 0],
     [guestName |-> "Asha", guestPhone |-> "9876543210",
      checkIn |-> Today + 1, checkOut |-> Today + 2,
      roomType |-> "Presidential", mealPlan |-> "EP",
      isGroupBooking |-> JsonFalse, totalAmount |-> 1]}

\* bodies of POST /api/inquiries
InquiryBodies ==
    {[name |-> "Asha", phone |-> "9876543210", message |-> "Need a quote"]}

\* bodies of POST /api/auth/login
LoginBodies ==
    {[username |-> ADMIN_USERNAME, password |-> ADMIN_PASSWORD],
     [username |-> ADMIN_USERNAME, password |-> "guess"]}

\* bodies of PUT /api/bookings/:id
PutBodies ==
    {[status |-> "Confirmed", totalAmount |-> 1],
     [status |-> "Refunded", totalAmount |-> 1]}

\* responses a client has received
IsLogin(req) == req.method = "POST" /\ req.pathname = LoginPath
IsLogout(req) == req.method = "POST" /\ req.pathname = LogoutPath
IsPostBooking(req) == req.method = "POST" /\ req.pathname = BookingsPath
IsPostInquiry(req) == req.method = "POST" /\ req.pathname = InquiriesPath
IsCalculatePrice(req) == req.method = "POST" /\ req.pathname = CalculatePath
Answered(r, status) == reqs[r].pc = "done" /\ reqs[r].response.status = status

\* tokens that a login has handed out
IssuedTokens == {r \in Reqs : IsLogin(reqs[r]) /\ Answered(r, 200)}
\* ids of bookings whose creation was answered
KnownIds == {r \in Reqs : IsPostBooking(reqs[r]) /\ Answered(r, 201)}

\* what a client can send: a token is one it was given, a made-up one or none
ClientTokens == {NoToken, ForgedToken} \cup IssuedTokens
ClientIds == {UnknownId} \cup KnownIds

Request(method, pathname, token, body) ==
    [IdleRequest EXCEPT !.method = method, !.pathname = pathname,
                        !.headers = BearerHeaders(token), !.body = body]

Requests ==
    {Request("POST", BookingsPath, NoToken, b) : b \in BookingBodies}
    \cup {Request("POST", InquiriesPath, NoToken, b) : b \in InquiryBodies}
    \cup {Request("POST", LoginPath, NoToken, b) : b \in LoginBodies}
    \cup {Request("POST", LogoutPath, t, [none |-> TRUE]) : t \in ClientTokens}
    \cup {Request("GET", p, t, [none |-> TRUE]) :
            p \in {BookingsPath, InquiriesPath, StatsPath, AuthCheckPath},
            t \in ClientTokens}
    \cup {Request("GET", BookingPath(id), t, [none |-> TRUE]) :
            id \in ClientIds, t \in ClientTokens}
    \cup {Request("PUT", BookingPath(id), t, b) :
            id \in ClientIds, t \in ClientTokens, b \in PutBodies}
    \cup {Request("DELETE", BookingPath(id), t, [none |-> TRUE]) :
            id \in ClientIds, t \in ClientTokens}

-----------------------------------------------------------------------------
(* server-secure.js: handleAPI, from one await to the next                 *)

Done(req, status, message, data) ==
    [req EXCEPT !.pc = "done", !.response = Response(status, message, data)]

\* the guard with the DELETE clause forgotten
IsProtectedWithoutDelete(method, pathname) ==
    LET protectedPaths == {BookingsPath, InquiriesPath, StatsPath}
        isProtectedGET ==
            (\E p \in protectedPaths : StartsWith(pathname, p)) /\ method = "GET"
        isProtectedPUT == StartsWithSlash(pathname, BookingsPath) /\ method = "PUT"
    IN  isProtectedGET \/ isProtectedPUT

\* the guard of the protected endpoints
IsProtected(method, pathname) ==
    LET protectedPaths == {BookingsPath, InquiriesPath, StatsPath}
        isProtectedGET ==
            (\E p \in protectedPaths : StartsWith(pathname, p)) /\ method = "GET"
        isProtectedPUT == StartsWithSlash(pathname, BookingsPath) /\ method = "PUT"
        isProtectedDELETE ==
            StartsWithSlash(pathname, BookingsPath) /\ method = "DELETE"
    IN  isProtectedGET \/ isProtectedPUT \/ isProtectedDELETE

\* the routes behind the guard that go on to read the bookings file
ReadsData(method, pathname) ==
    \/ pathname = BookingsPath /\ method = "GET"
    \/ IsBookingPath(pathname) /\ method \in {"GET", "PUT", "DELETE"}
    \/ pathname = InquiriesPath /\ method = "GET"
    \/ pathname = StatsPath /\ method = "GET"

\* handleAPI once validateSession has returned `session`: /api/auth/check
\* answers, the guard answers 401, a route reads the bookings file, or 404
AfterValidate(req, session) ==
    IF req.pathname = AuthCheckPath /\ req.method = "GET"
    THEN Done(req, 200, IF IsSession(session) THEN "authenticated" ELSE "anonymous",
              <<>>)
    ELSE IF IsProtected(req.method, req.pathname) /\ ~IsSession(session)
    THEN Done(req, 401, "Authentication required", <<>>)
    ELSE IF ReadsData(req.method, req.pathname)
    THEN [req EXCEPT !.pc = "readData", !.session = session]
    ELSE Done(req, 404, "API endpoint not found", <<>>)

\* POST /api/bookings up to readData: the checks and the price
PostBookingChecked(zone, t, req) ==
    LET body == req.body
        isGroupBooking == body.isGroupBooking = JsonTrue
        roomType == IF isGroupBooking THEN "Full Resort"
                    ELSE SanitizeString(body.roomType)
        mealPlan == IF IsMealPlan(body.mealPlan) THEN body.mealPlan ELSE "EP"
        priceOf == calculatePrice(zone, body.checkIn, body.checkOut, roomType,
                                  mealPlan, isGroupBooking)
    IN  IF ~IsString(body.guestName, 2, 100)
        THEN Done(req, 400, "Valid guest name is required (2-100 chars)", <<>>)
        ELSE IF ~IsPhone(body.guestPhone)
        THEN Done(req, 400, "Valid phone number is required", <<>>)
        ELSE IF ~IsDate(body.checkIn) \/ ~IsDate(body.checkOut)
        THEN Done(req, 400, "Valid check-in and check-out dates required", <<>>)
        ELSE IF NewDate(body.checkIn) < TodayMidnight(zone, t)
        THEN Done(req, 400, "Check-in date must be today or later", <<>>)
        ELSE IF ~isGroupBooking /\ ~IsRoomType(roomType)
        THEN Done(req, 400, "Invalid room type", <<>>)
        ELSE IF HasError(priceOf)
        THEN Done(req, 400, priceOf.error, <<>>)
        ELSE [req EXCEPT !.pc = "readData"]

\* the booking POST /api/bookings builds (the price is computed again from
\* the same arguments: calculatePrice has no state)
NewBooking(zone, t, id, body) ==
    LET isGroupBooking == body.isGroupBooking = JsonTrue
        roomType == IF isGroupBooking THEN "Full Resort"
                    ELSE SanitizeString(body.roomType)
        mealPlan == IF IsMealPlan(body.mealPlan) THEN body.mealPlan ELSE "EP"
        priceOf == calculatePrice(zone, body.checkIn, body.checkOut, roomType,
                                  mealPlan, isGroupBooking)
    IN  [id |-> id,
         guestName |-> SanitizeString(body.guestName),
         guestPhone |-> SanitizeString(body.guestPhone),
         checkIn |-> body.checkIn,
         checkOut |-> body.checkOut,
         roomType |-> priceOf.roomType,
         isGroupBooking |-> IF isGroupBooking THEN JsonTrue ELSE JsonFalse,
         mealPlan |-> priceOf.mealPlan,
         totalAmount |-> priceOf.total,
         nights |-> priceOf.nights,
         priceBreakdown |-> priceOf.breakdown,
         status |-> "Pending",
         createdAt |-> t]

\* POST /api/calculate-price
CalculatePriceChecked(zone, req) ==
    LET body == req.body
        result == calculatePrice(zone, body.checkIn, body.checkOut,
                      IF Truthy(body.roomType) THEN body.roomType ELSE "Deluxe Garden",
                      IF Truthy(body.mealPlan) THEN body.mealPlan ELSE "EP",
                      Truthy(body.isGroupBooking))
    IN  IF ~IsDate(body.checkIn) \/ ~IsDate(body.checkOut)
        THEN Done(req, 400, "Invalid dates", <<>>)
        ELSE IF Threw(result)
        \* the catch of handleAPI
        THEN Done(req, 500, "Server error", <<>>)
        ELSE IF HasError(result)
        THEN Done(req, 400, result.error, <<>>)
        ELSE Done(req, 200, "", <<result>>)

\* POST /api/inquiries up to readData
PostInquiryChecked(req) ==
    LET body == req.body
    IN  IF ~IsString(body.name, 2, 100)
        THEN Done(req, 400, "Valid name is required", <<>>)
        ELSE IF ~IsPhone(body.phone)
        THEN Done(req, 400, "Valid phone number is required", <<>>)
        ELSE IF ~IsString(body.message, 10, 2000)
        THEN Done(req, 400, "Message must be 10-2000 characters", <<>>)
        ELSE [req EXCEPT !.pc = "readData"]

NewInquiry(t, id, body) ==
    [id |-> id,
     name |-> SanitizeString(body.name),
     phone |-> SanitizeString(body.phone),
     message |-> SanitizeString(body.message),
     status |-> "New",
     createdAt |-> t]

\* the login refusal naming what was wrong
LoginCheckedNamingPassword(t, req) ==
    IF req.body.username = ADMIN_USERNAME /\ req.body.password = ADMIN_PASSWORD
    THEN [req EXCEPT !.pc = "readSessions", !.expiresAt = t + SessionTTL]
    ELSE Done(req, 401, "Wrong password", <<>>)

\* POST /api/auth/login up to the readSessions of createSession
LoginChecked(t, req) ==
    IF req.body.username = ADMIN_USERNAME /\ req.body.password = ADMIN_PASSWORD
    THEN [req EXCEPT !.pc = "readSessions", !.expiresAt = t + SessionTTL]
    ELSE Done(req, 401, "Invalid credentials", <<>>)

\* the handler of a request from its arrival to its first read of a file
\* (token: what getTokenFromRequest returns for the request)
Arrive(zone, t, request) ==
    LET req == [request EXCEPT !.token = getTokenFromRequest(request)]
    IN
    IF IsCalculatePrice(req) THEN CalculatePriceChecked(zone, req)
    ELSE IF IsPostBooking(req) THEN PostBookingChecked(zone, t, req)
    ELSE IF IsPostInquiry(req) THEN PostInquiryChecked(req)
    ELSE IF IsLogin(req) THEN LoginChecked(t, req)
    ELSE IF IsLogout(req)
    THEN IF getTokenFromRequest(req) # NoToken
         THEN [req EXCEPT !.pc = "readSessions"]
         ELSE Done(req, 200, "Logged out", <<>>)
    ELSE IF getTokenFromRequest(req) = NoToken
    THEN AfterValidate(req, NoSession)
    ELSE [req EXCEPT !.pc = "validate"]

\* a request arrives; requests are numbered in the order of their arrival
Receive(r) ==
    /\ program = SECURE
    /\ reqs[r].pc = "idle"
    /\ \A q \in Reqs : q < r => reqs[q].pc # "idle"
    /\ \E req \in Requests : reqs' = [reqs EXCEPT ![r] = Arrive(tz, now, req)]
    /\ UNCHANGED <<tz, priceVars, rateVars, program, now, dataFile, sessionsFile, dataLock,
                   resolved, dataWriting, sessWriting, writeCalls, writeStarts,
                   mvpCount,
                   tornIO>>

\* validateSession: the sessions file is read, the token looked up
ValidateSession(r) ==
    /\ program = SECURE
    /\ reqs[r].pc = "validate"
    /\ \E sessions \in readSessions :
           /\ reqs' = [reqs EXCEPT ![r] =
                          AfterValidate(reqs[r],
                              FindSession(sessions, getTokenFromRequest(reqs[r]), now))]
           /\ tornIO' = (tornIO \/ sessions # StoredSessions)
    /\ UNCHANGED <<tz, priceVars, rateVars, program, now, dataFile, sessionsFile, dataLock,
                   resolved, dataWriting, sessWriting, writeCalls, writeStarts,
                   mvpCount>>

\* the update signed with a fixed name instead of the session's
UpdatedBookingUnsigned(t, session, body, booking) ==
    [updatedAt |-> t, updatedBy |-> "staff", status |-> body.status] @@ booking

\* PUT /api/bookings/:id: the booking with status, updatedAt and updatedBy set
UpdatedBooking(t, session, body, booking) ==
    [updatedAt |-> t, updatedBy |-> session.username, status |-> body.status]
        @@ booking

\* the handler after readData returned `data`: either the request is answered
\* (write = FALSE) or data was changed and writeData is called with it
AfterReadData(zone, t, r, req, data) ==
    LET index == FindIndex(data.bookings, req.pathname.id)
    IN  IF IsPostBooking(req)
        THEN [write |-> TRUE,
              req |-> [req EXCEPT !.data.bookings =
                          Append(data.bookings, NewBooking(zone, t, r, req.body)),
                                  !.data.inquiries = data.inquiries]]
        ELSE IF IsPostInquiry(req)
        THEN [write |-> TRUE,
              req |-> [req EXCEPT !.data.inquiries =
                          Append(data.inquiries, NewInquiry(t, r, req.body)),
                                  !.data.bookings = data.bookings]]
        ELSE IF req.pathname = BookingsPath
        THEN [write |-> FALSE,
              req |-> Done(req, 200, "", SortNewestFirst(data.bookings))]
        ELSE IF req.pathname = InquiriesPath
        THEN [write |-> FALSE,
              req |-> Done(req, 200, "", SortNewestFirst(data.inquiries))]
        ELSE IF req.pathname = StatsPath
        THEN [write |-> FALSE,
              req |-> Done(req, 200, "stats",
                           <<[totalBookings |-> Len(data.bookings),
                              totalInquiries |-> Len(data.inquiries)]>>)]
        ELSE IF index = 0
        THEN [write |-> FALSE, req |-> Done(req, 404, "Booking not found", <<>>)]
        ELSE IF req.method = "GET"
        THEN [write |-> FALSE, req |-> Done(req, 200, "", <<data.bookings[index]>>)]
        ELSE IF req.method = "PUT"
        THEN IF req.body.status # Undefined /\ IsBookingStatus(req.body.status)
             THEN [write |-> TRUE,
                   req |-> [req EXCEPT !.data =
                       [data EXCEPT !.bookings[index] =
                           UpdatedBooking(t, req.session, req.body,
                                          data.bookings[index])]]]
             ELSE [write |-> FALSE, req |-> Done(req, 400, "Invalid status", <<>>)]
        ELSE [write |-> TRUE,
              req |-> [req EXCEPT !.data =
                          [data EXCEPT !.bookings = Splice(data.bookings, index)]]]

\* readData returns; the handler runs on to its answer or into writeData,
\* where it takes its place in the lock chain and waits for the previous lock
ReadData(r) ==
    /\ program = SECURE
    /\ reqs[r].pc = "readData"
    /\ \E data \in readData :
        LET next == AfterReadData(tz, now, r, reqs[r], data)
        IN  /\ tornIO' = (tornIO \/ data # dataFile)
            /\ IF next.write
               THEN /\ reqs' = [reqs EXCEPT ![r] =
                                   [next.req EXCEPT !.pc = "awaitLock",
                                                    !.prevLock = dataLock]]
                    /\ dataLock' = r
                    /\ writeCalls' = Append(writeCalls, r)
               ELSE /\ reqs' = [reqs EXCEPT ![r] = next.req]
                    /\ UNCHANGED <<dataLock, writeCalls>>
    /\ UNCHANGED <<tz, priceVars, rateVars, program, now, dataFile, sessionsFile, resolved,
                   dataWriting, sessWriting, writeStarts, mvpCount>>

\* writeData without `await previousLock`
WriteStartWithoutAwait(r) ==
    /\ program = SECURE
    /\ reqs[r].pc = "awaitLock"
    /\ reqs' = [reqs EXCEPT ![r].pc = "writing"]
    /\ dataWriting' = dataWriting \cup {r}
    /\ writeStarts' = Append(writeStarts, r)
    /\ UNCHANGED <<tz, priceVars, rateVars, program, now, dataFile, sessionsFile, dataLock,
                   resolved, sessWriting, writeCalls, mvpCount, tornIO>>

\* writeData after `await previousLock`: fs.writeFile is called
WriteStart(r) ==
    /\ program = SECURE
    /\ reqs[r].pc = "awaitLock"
    /\ reqs[r].prevLock \in resolved
    /\ reqs' = [reqs EXCEPT ![r].pc = "writing"]
    /\ dataWriting' = dataWriting \cup {r}
    /\ writeStarts' = Append(writeStarts, r)
    /\ UNCHANGED <<tz, priceVars, rateVars, program, now, dataFile, sessionsFile, dataLock,
                   resolved, sessWriting, writeCalls, mvpCount,
                   tornIO>>

\* the answer of a handler whose writeData has returned
AfterWrite(req) ==
    IF IsPostBooking(req)
    THEN Done(req, 201, "Booking request received! We will contact you shortly.",
              <<req.data.bookings[Len(req.data.bookings)]>>)
    ELSE IF IsPostInquiry(req)
    THEN Done(req, 201, "Thank you for your message! We will get back to you soon.",
              <<>>)
    ELSE IF req.method = "PUT"
    THEN Done(req, 200, "",
              <<req.data.bookings[FindIndex(req.data.bookings, req.pathname.id)]>>)
    ELSE Done(req, 200, "Booking deleted", <<>>)

\* fs.writeFile has written the file; resolveLock(); the handler answers
WriteEnd(r) ==
    /\ program = SECURE
    /\ reqs[r].pc = "writing"
    /\ dataFile' = reqs[r].data
    /\ dataWriting' = dataWriting \ {r}
    /\ resolved' = resolved \cup {r}
    /\ reqs' = [reqs EXCEPT ![r] = AfterWrite(reqs[r])]
    /\ UNCHANGED <<tz, priceVars, rateVars, program, now, sessionsFile, dataLock,
                   sessWriting, writeCalls, writeStarts, mvpCount,
                   tornIO>>

\* createSession extending every session it keeps by another TTL
SessionsToWriteRenewing(t, r, req, sessions) ==
    IF IsLogin(req)
    THEN Append([i \in 1 .. Len(LiveSessions(sessions, t)) |->
                    [LiveSessions(sessions, t)[i] EXCEPT !.expiresAt = @ + SessionTTL]],
                [token |-> r, username |-> req.body.username,
                 expiresAt |-> req.expiresAt, createdAt |-> t])
    ELSE WithoutToken(sessions, getTokenFromRequest(req))

\* the session list createSession or deleteSession writes, from the one read
SessionsToWrite(t, r, req, sessions) ==
    IF IsLogin(req)
    THEN Append(LiveSessions(sessions, t),
                [token |-> r, username |-> req.body.username,
                 expiresAt |-> req.expiresAt, createdAt |-> t])
    ELSE WithoutToken(sessions, getTokenFromRequest(req))

\* createSession / deleteSession: readSessions returns, the list is changed
\* and writeSessions calls fs.writeFile
ReadSessions(r) ==
    /\ program = SECURE
    /\ reqs[r].pc = "readSessions"
    /\ \E sessions \in readSessions :
           /\ reqs' = [reqs EXCEPT ![r].pc = "writingSessions",
                                   ![r].sessions =
                                       SessionsToWrite(now, r, reqs[r], sessions)]
           /\ tornIO' = (tornIO \/ sessions # StoredSessions)
    /\ sessWriting' = sessWriting \cup {r}
    /\ UNCHANGED <<tz, priceVars, rateVars, program, now, dataFile, sessionsFile, dataLock,
                   resolved, dataWriting, writeCalls, writeStarts, mvpCount>>

\* what a finished fs.writeFile leaves in the sessions file: its content, or,
\* when another write of the file overlapped it, possibly a mix of the two
\* that does not parse
SessionsWritten(content, overlapping) ==
    {[parseable |-> TRUE, sessions |-> content]}
    \cup (IF overlapping # {} THEN {[parseable |-> FALSE, sessions |-> <<>>]}
          ELSE {})

\* writeSessions returns; login answers with the token, logout with success
WriteSessionsEnd(r) ==
    /\ program = SECURE
    /\ reqs[r].pc = "writingSessions"
    /\ sessionsFile' \in SessionsWritten(reqs[r].sessions, sessWriting \ {r})
    /\ tornIO' = (tornIO \/ ~sessionsFile'.parseable)
    /\ sessWriting' = sessWriting \ {r}
    /\ reqs' = [reqs EXCEPT ![r] =
                   IF IsLogin(reqs[r])
                   THEN Done(reqs[r], 200, "Login successful", <<r>>)
                   ELSE Done(reqs[r], 200, "Logged out", <<>>)]
    /\ UNCHANGED <<tz, priceVars, rateVars, program, now, dataFile, dataLock, resolved,
                   dataWriting, writeCalls, writeStarts, mvpCount>>

\* time passes
Tick ==
    /\ now + TickMinutes <= StartNow + MaxTicks * TickMinutes
    /\ now' = now + TickMinutes
    /\ UNCHANGED <<tz, priceVars, rateVars, program, dataFile, sessionsFile, dataLock,
                   resolved, dataWriting, sessWriting, writeCalls, writeStarts,
                   reqs, mvpCount,
                   tornIO>>

-----------------------------------------------------------------------------
(* server.js: the legacy handlers, synchronous from body to answer         *)

\* the booking POST /api/bookings of server.js stores
MvpBooking(t, id, body) ==
    [id |-> id,
     guestName |-> IF body.guestName \in {Undefined, ""} THEN "Guest"
                   ELSE body.guestName,
     guestPhone |-> IF body.guestPhone = Undefined THEN "" ELSE body.guestPhone,
     checkIn |-> body.checkIn,
     checkOut |-> body.checkOut,
     roomType |-> IF body.roomType \in {Undefined, ""} THEN "Not specified"
                  ELSE body.roomType,
     isGroupBooking |-> body.isGroupBooking,
     mealPlan |-> IF body.mealPlan \in {Undefined, ""} THEN "EP" ELSE body.mealPlan,
     totalAmount |-> IF body.totalAmount = 0 THEN 0 ELSE body.totalAmount,
     status |-> "Pending",
     createdAt |-> t]

\* { ...data.bookings[index], ...body, updatedAt }
MvpMerge(t, booking, body) == [updatedAt |-> t] @@ body @@ booking

\* POST /api/bookings
MvpPostBooking ==
    /\ program = MVP
    /\ mvpCount < MaxMvpRequests
    /\ \E body \in BookingBodies :
           dataFile' = [dataFile EXCEPT !.bookings =
                           Append(@, MvpBooking(now, mvpCount + 1, body))]
    /\ mvpCount' = mvpCount + 1
    /\ UNCHANGED <<tz, priceVars, rateVars, program, now, sessionsFile, dataLock, resolved,
                   dataWriting, sessWriting, writeCalls, writeStarts, reqs,
                   tornIO>>

\* PUT /api/bookings/:id
MvpPutBooking ==
    /\ program = MVP
    /\ mvpCount < MaxMvpRequests
    /\ \E id \in 1 .. MaxMvpRequests, body \in PutBodies :
           LET index == FindIndex(dataFile.bookings, id)
           IN  dataFile' =
                   IF index # 0
                   THEN [dataFile EXCEPT !.bookings[index] = MvpMerge(now, @, body)]
                   ELSE dataFile
    /\ mvpCount' = mvpCount + 1
    /\ UNCHANGED <<tz, priceVars, rateVars, program, now, sessionsFile, dataLock, resolved,
                   dataWriting, sessWriting, writeCalls, writeStarts, reqs,
                   tornIO>>

\* DELETE /api/bookings/:id
MvpDeleteBooking ==
    /\ program = MVP
    /\ mvpCount < MaxMvpRequests
    /\ \E id \in 1 .. MaxMvpRequests :
           LET index == FindIndex(dataFile.bookings, id)
           IN  dataFile' =
                   IF index # 0
                   THEN [dataFile EXCEPT !.bookings = Splice(@, index)]
                   ELSE dataFile
    /\ mvpCount' = mvpCount + 1
    /\ UNCHANGED <<tz, priceVars, rateVars, program, now, sessionsFile, dataLock, resolved,
                   dataWriting, sessWriting, writeCalls, writeStarts, reqs,
                   tornIO>>

-----------------------------------------------------------------------------
(* Specifications                                                          *)

\* the stores and the handlers at start: empty files (ensureDataFiles), the
\* lock a resolved promise, no request received
ServerStart ==
    /\ now = StartNow
    /\ dataFile = EmptyData
    /\ sessionsFile = EmptySessions
    /\ dataLock = 0
    /\ resolved = {0}
    /\ dataWriting = {}
    /\ sessWriting = {}
    /\ writeCalls = <<>>
    /\ writeStarts = <<>>
    /\ reqs = [r \in Reqs |-> IdleRequest]
    /\ tornIO = FALSE
    /\ mvpCount = 0
    /\ rateLimitStore = EmptyMap
    /\ clockMs = 0
    /\ rateTicks = 0
    /\ arrivals = [ip \in ClientIPs |-> <<>>]

NoPriceCall ==
    /\ priceArgs = [checkIn |-> 0, checkOut |-> 0, roomType |-> "Deluxe Garden",
                    mealPlan |-> "EP", isGroupBooking |-> JsonFalse]
    /\ priceResult = NoResult

\* one of the two programs is started and serves requests
Init ==
    /\ tz \in TimeZones
    /\ program \in {SECURE, MVP}
    /\ ServerStart
    /\ NoPriceCall

Next ==
    \/ \E r \in Reqs : Receive(r)
    \/ \E r \in Reqs : ValidateSession(r)
    \/ \E r \in Reqs : ReadData(r)
    \/ \E r \in Reqs : WriteStart(r)
    \/ \E r \in Reqs : WriteEnd(r)
    \/ \E r \in Reqs : ReadSessions(r)
    \/ \E r \in Reqs : WriteSessionsEnd(r)
    \/ Tick
    \/ MvpPostBooking
    \/ MvpPutBooking
    \/ MvpDeleteBooking

Spec == Init /\ [][Next]_vars

-----------------------------------------------------------------------------
(* Specification of one calculatePrice call                                *)

PriceInit ==
    /\ tz \in TimeZones
    /\ priceArgs \in PriceArgs
    /\ priceResult = NoResult
    /\ program = SECURE
    /\ ServerStart

CallCalculatePrice ==
    /\ priceResult = NoResult
    /\ priceResult' = calculatePrice(tz, priceArgs.checkIn, priceArgs.checkOut,
                                     priceArgs.roomType, priceArgs.mealPlan,
                                     Truthy(priceArgs.isGroupBooking))
    /\ UNCHANGED <<tz, priceArgs, rateVars, serverVars>>

\* the request body that carries the arguments under study
PricedBody ==
    [guestName |-> "Asha", guestPhone |-> "9876543210", totalAmount |-> 1]
        @@ priceArgs

\* the preview and the booking request with that body
PricedRequests ==
    {Request("POST", CalculatePath, NoToken, PricedBody),
     Request("POST", BookingsPath, NoToken, PricedBody)}

\* one of them arrives, once the request before it has been answered
ReceivePriced(r) ==
    /\ program = SECURE
    /\ reqs[r].pc = "idle"
    /\ \A q \in Reqs : q < r => reqs[q].pc = "done"
    /\ \E req \in PricedRequests : reqs' = [reqs EXCEPT ![r] = Arrive(tz, now, req)]
    /\ UNCHANGED <<tz, priceVars, rateVars, program, now, dataFile, sessionsFile, dataLock,
                   resolved, dataWriting, sessWriting, writeCalls, writeStarts,
                   mvpCount, tornIO>>

PriceNext ==
    \/ CallCalculatePrice
    \/ \E r \in 1 .. PricedReqs : ReceivePriced(r)
    \/ \E r \in 1 .. PricedReqs : ReadData(r)
    \/ \E r \in 1 .. PricedReqs : WriteStart(r)
    \/ \E r \in 1 .. PricedReqs : WriteEnd(r)

PriceSpec == PriceInit /\ [][PriceNext]_vars

-----------------------------------------------------------------------------
(* Specification of requests with arbitrary credential headers             *)

CookieNames == {"admin_token", "old_admin_token", "theme"}
HeaderValues == 1 .. MaxHeaderValue
CookiePairs == [name : CookieNames, value : HeaderValues]
\* the Cookie headers of up to two cookies
CookieHeaders ==
    {<<>>} \cup {<<c>> : c \in CookiePairs}
           \cup {<<c, d>> : c \in CookiePairs, d \in CookiePairs}
AuthorizationHeaders ==
    {NoAuthorization, [scheme |-> "Basic", value |-> 1]}
    \cup {Bearer(t) : t \in HeaderValues}
Headers == [authorization : AuthorizationHeaders, cookie : CookieHeaders]

\* the endpoints that ask getTokenFromRequest, under every header set, and
\* the login that issues a token
HeaderRequests ==
    {[Request(m.method, m.pathname, NoToken, [none |-> TRUE])
         EXCEPT !.headers = h] :
        m \in {[method |-> "GET", pathname |-> AuthCheckPath],
                [method |-> "POST", pathname |-> LogoutPath]},
        h \in Headers}
    \cup {Request("POST", LoginPath, NoToken,
                  [username |-> ADMIN_USERNAME, password |-> ADMIN_PASSWORD])}

TokenInit ==
    /\ tz = UTC
    /\ program = SECURE
    /\ ServerStart
    /\ NoPriceCall

\* one of them arrives, once the request before it has been answered
ReceiveWithHeaders(r) ==
    /\ program = SECURE
    /\ reqs[r].pc = "idle"
    /\ \A q \in Reqs : q < r => reqs[q].pc = "done"
    /\ \E req \in HeaderRequests : reqs' = [reqs EXCEPT ![r] = Arrive(tz, now, req)]
    /\ UNCHANGED <<tz, priceVars, rateVars, program, now, dataFile, sessionsFile, dataLock,
                   resolved, dataWriting, sessWriting, writeCalls, writeStarts,
                   mvpCount, tornIO>>

TokenNext ==
    \/ \E r \in 1 .. HeaderReqs : ReceiveWithHeaders(r)
    \/ \E r \in 1 .. HeaderReqs : ValidateSession(r)
    \/ \E r \in 1 .. HeaderReqs : ReadSessions(r)
    \/ \E r \in 1 .. HeaderReqs : WriteSessionsEnd(r)

TokenSpec == TokenInit /\ [][TokenNext]_vars

-----------------------------------------------------------------------------
(* Specification of booking and inquiry requests with a bad field          *)

\* "2025-02-30", which new Date carries to 2025-03-02, and 2025-03-04
Feb30 == DayOverflow + 31 + 28 + 1
Mar4 == 31 + 28 + 3

GoodBooking ==
    [guestName |-> "Asha", guestPhone |-> "9876543210",
     checkIn |-> Today + 1, checkOut |-> Today + 2,
     roomType |-> "Deluxe Garden", mealPlan |-> "EP",
     isGroupBooking |-> JsonFalse, totalAmount |-> 1]
GoodInquiry == [name |-> "Asha", phone |-> "9876543210", message |-> "Need a quote"]

\* the good bodies, and each with one field replaced
CheckedBookingBodies ==
    {GoodBooking}
    \cup {[GoodBooking EXCEPT !.guestName = v] : v \in {Undefined, "A"}}
    \cup {[GoodBooking EXCEPT !.guestPhone = v] :
              v \in {Undefined, "12345", "98765<3210"}}
    \cup {[GoodBooking EXCEPT !.checkIn = v] : v \in {0 - 1, Today - 1, Today}}
    \cup {[GoodBooking EXCEPT !.checkOut = v] : v \in {0 - 1, Today + 1}}
    \cup {[GoodBooking EXCEPT !.checkIn = Feb30, !.checkOut = Mar4]}
    \cup {[GoodBooking EXCEPT !.roomType = v, !.isGroupBooking = g] :
              v \in {"Presidential", "constructor", Undefined},
              g \in {JsonFalse, JsonTrue}}
CheckedInquiryBodies ==
    {GoodInquiry}
    \cup {[GoodInquiry EXCEPT !.name = v] : v \in {Undefined, "A"}}
    \cup {[GoodInquiry EXCEPT !.phone = v] : v \in {Undefined, "12345"}}
    \cup {[GoodInquiry EXCEPT !.message = v] : v \in {Undefined, "Too short"}}

CheckedRequests ==
    {Request("POST", BookingsPath, NoToken, b) : b \in CheckedBookingBodies}
    \cup {Request("POST", InquiriesPath, NoToken, b) : b \in CheckedInquiryBodies}

ValidationInit ==
    /\ tz \in TimeZones
    /\ program = SECURE
    /\ ServerStart
    /\ NoPriceCall

\* one of them arrives, once the request before it has been answered
ReceiveChecked(r) ==
    /\ program = SECURE
    /\ reqs[r].pc = "idle"
    /\ \A q \in Reqs : q < r => reqs[q].pc = "done"
    /\ \E req \in CheckedRequests : reqs' = [reqs EXCEPT ![r] = Arrive(tz, now, req)]
    /\ UNCHANGED <<tz, priceVars, rateVars, program, now, dataFile, sessionsFile,
                   dataLock, resolved, dataWriting, sessWriting, writeCalls,
                   writeStarts, mvpCount, tornIO>>

ValidationNext ==
    \/ \E r \in 1 .. ValidatedReqs : ReceiveChecked(r)
    \/ \E r \in 1 .. ValidatedReqs : ReadData(r)
    \/ \E r \in 1 .. ValidatedReqs : WriteStart(r)
    \/ \E r \in 1 .. ValidatedReqs : WriteEnd(r)

ValidationSpec == ValidationInit /\ [][ValidationNext]_vars

-----------------------------------------------------------------------------
(* Specification of updates of a booking stored before the server started  *)

\* the id of that booking and the token of a session of that time
EarlierId == NumReqs + 1
EarlierToken == NumReqs + 2
EarlierBooking == NewBooking(UTC, StartNow - 60, EarlierId, GoodBooking)
EarlierSession ==
    [token |-> EarlierToken, username |-> ADMIN_USERNAME,
     expiresAt |-> StartNow - 60 + SessionTTL, createdAt |-> StartNow - 60]

\* ensureDataFiles finds both files in place and leaves them as they are
UpdateInit ==
    /\ tz = UTC
    /\ program = SECURE
    /\ now = StartNow
    /\ dataFile = [bookings |-> <<EarlierBooking>>, inquiries |-> <<>>]
    /\ sessionsFile = [parseable |-> TRUE, sessions |-> <<EarlierSession>>]
    /\ dataLock = 0
    /\ resolved = {0}
    /\ dataWriting = {}
    /\ sessWriting = {}
    /\ writeCalls = <<>>
    /\ writeStarts = <<>>
    /\ reqs = [r \in Reqs |-> IdleRequest]
    /\ tornIO = FALSE
    /\ mvpCount = 0
    /\ rateLimitStore = EmptyMap
    /\ clockMs = 0
    /\ rateTicks = 0
    /\ arrivals = [ip \in ClientIPs |-> <<>>]
    /\ NoPriceCall

\* status updates of that booking and of one that is not stored, by the
\* admin, with a status that is allowed, one that is not and none; an inquiry
\* and a booking
UpdateRequests ==
    {Request("PUT", BookingPath(id), EarlierToken, b) :
        id \in {EarlierId, EarlierId + 1},
        b \in PutBodies \cup {[status |-> Undefined, totalAmount |-> 1]}}
    \cup {Request("POST", InquiriesPath, NoToken, GoodInquiry)}
    \cup {Request("POST", BookingsPath, NoToken, GoodBooking)}

ReceiveUpdate(r) ==
    /\ program = SECURE
    /\ reqs[r].pc = "idle"
    /\ \A q \in Reqs : q < r => reqs[q].pc # "idle"
    /\ \E req \in UpdateRequests : reqs' = [reqs EXCEPT ![r] = Arrive(tz, now, req)]
    /\ UNCHANGED <<tz, priceVars, rateVars, program, now, dataFile, sessionsFile,
                   dataLock, resolved, dataWriting, sessWriting, writeCalls,
                   writeStarts, mvpCount, tornIO>>

UpdateNext ==
    \/ \E r \in 1 .. UpdateReqs : ReceiveUpdate(r)
    \/ \E r \in 1 .. UpdateReqs : ValidateSession(r)
    \/ \E r \in 1 .. UpdateReqs : ReadData(r)
    \/ \E r \in 1 .. UpdateReqs : WriteStart(r)
    \/ \E r \in 1 .. UpdateReqs : WriteEnd(r)

UpdateSpec == UpdateInit /\ [][UpdateNext]_vars

-----------------------------------------------------------------------------
(* writeData when fs.writeFile can fail                                    *)

\* a failed write without the `finally`: resolveLock is never called
WriteFailKeepingLock(r) ==
    /\ program = SECURE
    /\ reqs[r].pc = "writing"
    /\ dataFile' \in {dataFile, EmptyData}
    /\ dataWriting' = dataWriting \ {r}
    /\ reqs' = [reqs EXCEPT ![r] = Done(reqs[r], 500, "Server error", <<>>)]
    /\ UNCHANGED <<tz, priceVars, rateVars, program, now, sessionsFile, dataLock,
                   resolved, sessWriting, writeCalls, writeStarts, mvpCount,
                   tornIO>>

\* fs.writeFile rejects: the file is as it was or was left truncated;
\* `finally` calls resolveLock all the same, writeData throws and the
\* handler's catch answers 500
WriteFail(r) ==
    /\ program = SECURE
    /\ reqs[r].pc = "writing"
    /\ dataFile' \in {dataFile, EmptyData}
    /\ dataWriting' = dataWriting \ {r}
    /\ resolved' = resolved \cup {r}
    /\ reqs' = [reqs EXCEPT ![r] = Done(reqs[r], 500, "Server error", <<>>)]
    /\ UNCHANGED <<tz, priceVars, rateVars, program, now, sessionsFile, dataLock,
                   sessWriting, writeCalls, writeStarts, mvpCount,
                   tornIO>>

LockInit ==
    /\ tz = UTC
    /\ program = SECURE
    /\ ServerStart
    /\ NoPriceCall

\* requests whose handlers call writeData
WritingRequests ==
    {Request("POST", InquiriesPath, NoToken, GoodInquiry),
     Request("POST", BookingsPath, NoToken, GoodBooking)}

ReceiveWriting(r) ==
    /\ program = SECURE
    /\ reqs[r].pc = "idle"
    /\ \A q \in Reqs : q < r => reqs[q].pc # "idle"
    /\ \E req \in WritingRequests : reqs' = [reqs EXCEPT ![r] = Arrive(tz, now, req)]
    /\ UNCHANGED <<tz, priceVars, rateVars, program, now, dataFile, sessionsFile,
                   dataLock, resolved, dataWriting, sessWriting, writeCalls,
                   writeStarts, mvpCount, tornIO>>

LockNext ==
    \/ \E r \in 1 .. LockReqs : ReceiveWriting(r)
    \/ \E r \in 1 .. LockReqs : ReadData(r)
    \/ \E r \in 1 .. LockReqs : WriteStart(r)
    \/ \E r \in 1 .. LockReqs : WriteEnd(r)
    \/ \E r \in 1 .. LockReqs : WriteFail(r)

\* a continuation whose awaited promise is resolved is run, and every
\* fs.writeFile settles
LockFairness ==
    \A r \in 1 .. LockReqs :
        /\ WF_vars(WriteStart(r))
        /\ WF_vars(WriteEnd(r) \/ WriteFail(r))

LockSpec == LockInit /\ [][LockNext]_vars /\ LockFairness

-----------------------------------------------------------------------------
(* Specification of the rate limiter                                       *)

RateInit ==
    /\ tz = UTC
    /\ program = SECURE
    /\ ServerStart
    /\ NoPriceCall

\* the requests an IP sends in this specification
MaxRequestsOf(ip) == IF ip = "10.0.0.1" THEN MaxBurst ELSE MaxOther

\* handleRequest up to the rate limit's verdict: 429, or on to handleAPI or
\* the static files
HandleRequest(client) ==
    LET ip == getClientIP(client)
        verdict == isRateLimited(rateLimitStore, ip, clockMs)
    IN  /\ program = SECURE
        /\ Len(arrivals[ip]) < MaxRequestsOf(ip)
        /\ rateLimitStore' = verdict.store
        /\ arrivals' = [arrivals EXCEPT ![ip] =
                           Append(@, [time |-> clockMs, limited |-> verdict.limited])]
        /\ UNCHANGED <<tz, priceVars, clockMs, rateTicks, serverVars>>

\* the setInterval callback, every 60000 ms
CleanupInterval ==
    /\ clockMs > 0
    /\ clockMs % 60000 = 0
    /\ rateLimitStore' = CleanedUp(rateLimitStore, DOMAIN rateLimitStore, clockMs)
    /\ UNCHANGED <<tz, priceVars, clockMs, rateTicks, arrivals, serverVars>>

\* time passes
ClockTick ==
    /\ rateTicks < MaxRateTicks
    /\ rateTicks' = rateTicks + 1
    /\ \E step \in RateSteps : clockMs' = clockMs + step
    /\ UNCHANGED <<tz, priceVars, rateLimitStore, arrivals, serverVars>>

RateNext ==
    \/ \E client \in Clients : HandleRequest(client)
    \/ CleanupInterval
    \/ ClockTick

RateSpec == RateInit /\ [][RateNext]_vars

-----------------------------------------------------------------------------
(* Bookings store, guard, sessions and write lock: claims                  *)

InFile(id) == \E i \in 1 .. Len(dataFile.bookings) : dataFile.bookings[i].id = id
InquiryInFile(id) ==
    \E i \in 1 .. Len(dataFile.inquiries) : dataFile.inquiries[i].id = id
StoredBooking(id) == dataFile.bookings[FindIndex(dataFile.bookings, id)]

\* the stored total is what the price calculation returns for the stored fields
PriceMatches(b) ==
    LET priceOf == calculatePrice(tz, b.checkIn, b.checkOut, b.roomType,
                                  b.mealPlan, Truthy(b.isGroupBooking))
    IN  IsPrice(priceOf) /\ b.totalAmount = priceOf.total

\* C1: whichever server wrote the bookings file, every persisted
\* booking's totalAmount is the calculated total of its own checkIn, checkOut,
\* roomType, mealPlan and isGroupBooking.
C1_EveryStoredTotalIsCalculated ==
    \A i \in 1 .. Len(dataFile.bookings) : PriceMatches(dataFile.bookings[i])

\* C1 for server-secure.js alone: every booking it persists has the calculated
\* total of its own fields, whatever totalAmount the POST or PUT bodies carried.
C1_SecureStoredTotalIsCalculated ==
    program = SECURE =>
        \A i \in 1 .. Len(dataFile.bookings) : PriceMatches(dataFile.bookings[i])

\* a booking whose POST body carried totalAmount 1 and that a PUT carrying
\* totalAmount 1 has confirmed is stored with another total
C1_ClientTotalIgnored ==
    /\ program = SECURE
    /\ \E r \in Reqs :
        /\ IsPostBooking(reqs[r]) /\ Answered(r, 201)
        /\ reqs[r].body.totalAmount = 1
        /\ InFile(r)
        /\ StoredBooking(r).totalAmount # 1
        /\ StoredBooking(r).status = "Confirmed"
        /\ \E p \in Reqs : /\ reqs[p].method = "PUT" /\ Answered(p, 200)
                           /\ reqs[p].pathname.id = r
                           /\ reqs[p].body.totalAmount = 1

\* the requests C2 speaks of
NeedsSession(req) ==
    \/ /\ req.method = "GET"
       /\ \E p \in {BookingsPath, InquiriesPath, StatsPath} : StartsWith(req.pathname, p)
    \/ /\ req.method \in {"PUT", "DELETE"}
       /\ StartsWithSlash(req.pathname, BookingsPath)

\* the token is that of a stored session that has not expired
TokenResolves(token) ==
    token # NoToken /\ IsSession(FindSession(StoredSessions, token, now))

\* C2: a GET under /api/bookings, /api/inquiries or /api/stats, or a PUT or
\* DELETE under /api/bookings/, whose token resolves to no valid session is
\* answered 401 without data in the step that decides it, that step leaves
\* the bookings file and the sessions file unchanged, and an answered
\* request does nothing more.
C2_UnauthorizedIsRefused ==
    [][\A r \in Reqs :
        /\ ( /\ reqs[r].pc \in {"idle", "validate"}
             /\ reqs'[r].pc \notin {"idle", "validate"}
             /\ NeedsSession(reqs'[r])
             /\ ~TokenResolves(reqs'[r].token) )
           => /\ reqs'[r].pc = "done"
              /\ reqs'[r].response = Response(401, "Authentication required", <<>>)
              /\ dataFile' = dataFile
              /\ sessionsFile' = sessionsFile
        /\ reqs[r].pc = "done" => reqs'[r] = reqs[r]]_vars

\* a DELETE of a stored booking that carried the token of an expired or
\* logged-out session was refused, and the booking is still stored
C2_StaleTokenRefused ==
    \E r \in Reqs :
        /\ reqs[r].method = "DELETE"
        /\ reqs[r].token \in IssuedTokens
        /\ Answered(r, 401)
        /\ InFile(reqs[r].pathname.id)

LogoutAsked(token) ==
    \E q \in Reqs : IsLogout(reqs[q]) /\ reqs[q].pc # "idle" /\ reqs[q].token = token

\* C3: once createSession has returned token t, validateSession(t) returns
\* the session while now < expiresAt, whatever createSession and deleteSession
\* calls for other tokens ran concurrently, and returns absent from
\* now >= expiresAt on.  (Stated for reads and writes of the sessions file
\* that were never torn.)
C3_SessionActiveUntilExpiry ==
    ~tornIO =>
        \A t \in IssuedTokens :
            LET found == FindSession(StoredSessions, t, now)
            IN  IF now < reqs[t].expiresAt
                THEN ~LogoutAsked(t) =>
                        IsSession(found) /\ found.token = t
                                         /\ found.expiresAt = reqs[t].expiresAt
                ELSE found = NoSession

\* C4: after a login with the configured credentials returned token t, a
\* GET /api/bookings carrying t before t expires or is logged out is answered
\* 200; one carrying no token or a token never issued is answered 401; a login
\* with a wrong password is answered 401 and stores no session.
C4_LoginThenList ==
    ~tornIO =>
        /\ \A g \in Reqs :
            (reqs[g].method = "GET" /\ reqs[g].pathname = BookingsPath
                /\ reqs[g].pc = "done") =>
                /\ reqs[g].token \in {NoToken, ForgedToken}
                       => reqs[g].response.status = 401
                /\ ( /\ reqs[g].token \in IssuedTokens
                     /\ now < reqs[reqs[g].token].expiresAt
                     /\ ~LogoutAsked(reqs[g].token) )
                       => reqs[g].response.status = 200
        /\ \A l \in Reqs :
            (IsLogin(reqs[l]) /\ reqs[l].pc # "idle"
                /\ reqs[l].body.password # ADMIN_PASSWORD) =>
                /\ Answered(l, 401)
                /\ \A i \in 1 .. Len(StoredSessions) : StoredSessions[i].token # l

AllQuiet == \A r \in Reqs : reqs[r].pc \in {"idle", "done"}

\* C5: when every request has been answered, the bookings file holds every
\* booking and inquiry whose creation was answered 201 (unless a DELETE
\* removed the booking), every acknowledged status update, and no booking
\* whose DELETE was answered 200.  (Stated for reads that were never torn.)
C5_NoAcknowledgedWriteLost ==
    (program = SECURE /\ ~tornIO /\ AllQuiet) =>
        /\ \A r \in Reqs :
            (IsPostBooking(reqs[r]) /\ Answered(r, 201)) =>
                \/ InFile(r)
                \/ \E d \in Reqs : /\ reqs[d].method = "DELETE" /\ Answered(d, 200)
                                   /\ reqs[d].pathname.id = r
        /\ \A r \in Reqs :
            (IsPostInquiry(reqs[r]) /\ Answered(r, 201)) => InquiryInFile(r)
        /\ \A p \in Reqs :
            (reqs[p].method = "PUT" /\ Answered(p, 200) /\ InFile(reqs[p].pathname.id))
                => StoredBooking(reqs[p].pathname.id).status = reqs[p].body.status
        /\ \A d \in Reqs :
            (reqs[d].method = "DELETE" /\ Answered(d, 200))
                => ~InFile(reqs[d].pathname.id)

\* C6: at most one write of the bookings file is in progress, the writes
\* begin in the order in which writeData was called, and a write has begun
\* only if the writes of all earlier callers have completed.
C6_DataWritesSerialized ==
    /\ Cardinality(dataWriting) <= 1
    /\ Len(writeStarts) <= Len(writeCalls)
    /\ \A i \in 1 .. Len(writeStarts) : writeStarts[i] = writeCalls[i]
    /\ \A i \in 1 .. Len(writeCalls), j \in 1 .. Len(writeStarts) :
           i < j => reqs[writeCalls[i]].pc = "done"

\* three requests have called writeData: the first has written, the second
\* is writing, the third waits for its lock
C6_WritersQueued ==
    /\ Len(writeCalls) = 3
    /\ reqs[writeCalls[1]].pc = "done"
    /\ reqs[writeCalls[2]].pc = "writing"
    /\ reqs[writeCalls[3]].pc = "awaitLock"

\* C7: two writes of the sessions file are never in progress at the same time.
C7_SessionWritesSerialized == Cardinality(sessWriting) <= 1

-----------------------------------------------------------------------------
(* Price calculation: claims                                               *)

Returned == priceResult # NoResult
Succeeded == Returned /\ IsPrice(priceResult)

\* calendar day of week of a date "YYYY-MM-DD" (0 = Sunday)
DayOfWeekOfDate(date) == (date + EpochDow) % 7

RECURSIVE SumRates(_)
SumRates(b) == IF b = <<>> THEN 0 ELSE b[1].rate + SumRates(Tail(b))

\* C8: for checkOut later than checkIn, nights is the number of calendar days
\* between them, the breakdown has one entry per night from checkIn
\* (inclusive) to checkOut (exclusive) in ascending order, and total is the
\* sum of the entries' rates.
C8_NightsAndTotal ==
    (Succeeded /\ priceArgs.checkOut > priceArgs.checkIn) =>
        /\ priceResult.nights = priceArgs.checkOut - priceArgs.checkIn
        /\ Len(priceResult.breakdown) = priceResult.nights
        /\ \A i \in 1 .. Len(priceResult.breakdown) :
               priceResult.breakdown[i].date = priceArgs.checkIn + i - 1
        /\ priceResult.total = SumRates(priceResult.breakdown)

\* C9: a non-group request with a room of the rate table pays, each night,
\* the rate table entry for (room, weekend or weekday of that night, meal
\* plan); Deluxe Garden / EP from 2025-01-06 to 2025-01-09 is 3 nights at
\* 1700, total 5100, no weekend night; Deluxe Garden / EP from a Friday
\* (day of week 5) for two days is 2 nights at 2200, total 4400, both weekend.
C9_RateTableAndScenarios ==
    (Succeeded /\ ~Truthy(priceArgs.isGroupBooking)) =>
        LET b == priceResult.breakdown
            room == Rooms[priceArgs.roomType]
            dgEp == priceArgs.roomType = "Deluxe Garden" /\ priceArgs.mealPlan = "EP"
        IN  /\ \A i \in 1 .. Len(b) :
                   b[i].rate = NightlyRate(room, priceArgs.mealPlan,
                                           IsWeekendDay(DayOfWeekOfDate(b[i].date)))
            /\ (dgEp /\ priceArgs.checkIn = 5 /\ priceArgs.checkOut = 8) =>
                   /\ priceResult.nights = 3
                   /\ priceResult.total = 5100
                   /\ \A i \in 1 .. Len(b) : b[i].rate = 1700 /\ ~b[i].isWeekend
            /\ (dgEp /\ DayOfWeekOfDate(priceArgs.checkIn) = 5
                     /\ priceArgs.checkOut = priceArgs.checkIn + 2) =>
                   /\ priceResult.nights = 2
                   /\ priceResult.total = 4400
                   /\ \A i \in 1 .. Len(b) : b[i].rate = 2200 /\ b[i].isWeekend

\* the isWeekend flags of a result, in order
WeekendFlags(r) == [i \in 1 .. Len(r.breakdown) |-> r.breakdown[i].isWeekend]

\* C10: an entry's isWeekend flag is true iff the day of week of the entry's
\* date is 5 or 6, and the flags of a date range are the same for every
\* roomType, mealPlan and isGroupBooking value.
C10_WeekendByDateOnly ==
    Succeeded =>
        /\ \A i \in 1 .. Len(priceResult.breakdown) :
               priceResult.breakdown[i].isWeekend
                   <=> DayOfWeekOfDate(priceResult.breakdown[i].date) \in {5, 6}
        /\ \A room \in RoomTypes, plan \in MealPlans, group \in BOOLEAN :
               LET other == calculatePrice(tz, priceArgs.checkIn, priceArgs.checkOut,
                                           room, plan, group)
               IN  IsPrice(other) => WeekendFlags(other) = WeekendFlags(priceResult)

\* the arguments are valid dates with checkOut after checkIn
ValidRange == priceArgs.checkIn >= 0 /\ priceArgs.checkOut > priceArgs.checkIn
\* the isGroupBooking argument is truthy
Group == Truthy(priceArgs.isGroupBooking)

\* C11: a group request over a valid range never fails; every night costs the
\* group rate, weekday or weekend; total is nights times the group rate (so a
\* result of 2 nights totals twice the group rate); the result's roomType is
\* 'Full Resort'; and the result is the same for every roomType and mealPlan
\* supplied, unknown ones included.
C11_GroupFlatRate ==
    (Returned /\ Group /\ ValidRange) =>
        /\ IsPrice(priceResult)
        /\ \A i \in 1 .. Len(priceResult.breakdown) :
               priceResult.breakdown[i].rate = GroupRate
        /\ priceResult.total = priceResult.nights * GroupRate
        /\ priceResult.nights = 2 => priceResult.total = 2 * GroupRate
        /\ priceResult.roomType = "Full Resort"
        /\ \A room \in RoomTypes, plan \in MealPlans :
               calculatePrice(tz, priceArgs.checkIn, priceArgs.checkOut, room, plan,
                              TRUE) = priceResult

\* a group request with a roomType and a mealPlan the rate table does not
\* know was priced for two nights, one a weekend night and one not
C11_GroupUnknownRoomPriced ==
    /\ Returned /\ Group /\ IsPrice(priceResult)
    /\ priceArgs.roomType \notin DOMAIN Rooms
    /\ priceArgs.mealPlan = "AP"
    /\ priceResult.nights = 2
    /\ priceResult.breakdown[1].isWeekend # priceResult.breakdown[2].isWeekend

\* both dates are valid and checkOut is checkIn or an earlier date
BadRange ==
    /\ priceArgs.checkIn >= 0 /\ priceArgs.checkOut >= 0
    /\ priceArgs.checkOut <= priceArgs.checkIn

RangeError == [error |-> "Check-out must be after check-in"]

C13_UnknownRoomIsError ==
    Returned =>
        /\ (~Group /\ ValidRange /\ priceArgs.roomType \notin DOMAIN Rooms)
               => priceResult = [error |-> "Invalid room type"]
        /\ ~Threw(priceResult)
        /\ HasError(priceResult) => DOMAIN priceResult = {"error"}
        /\ IsPrice(priceResult) =>
               /\ ~HasError(priceResult)
               /\ priceResult.nights >= 1
               /\ Len(priceResult.breakdown) = priceResult.nights
               /\ priceResult.total = SumRates(priceResult.breakdown)

\* the rate the table gives a room for a night of that kind under a plan:
\* MAPAI for 'MAPAI', EP for anything else
TableRate(roomType, mealPlan, isWeekend) ==
    LET table == IF isWeekend THEN Rooms[roomType].weekend
                 ELSE Rooms[roomType].weekday
    IN  IF mealPlan = "MAPAI" THEN table.mapai ELSE table.ep

\* C14: a non-group request with a room of the rate table never fails on its
\* mealPlan; every night costs the MAPAI rate for 'MAPAI' and the EP rate for
\* any other value, in a direct call and in a booking that is persisted.
C14_UnknownPlanIsEP ==
    /\ (Returned /\ ~Group /\ ValidRange /\ priceArgs.roomType \in DOMAIN Rooms) =>
        /\ IsPrice(priceResult)
        /\ \A i \in 1 .. Len(priceResult.breakdown) :
               priceResult.breakdown[i].rate =
                   TableRate(priceArgs.roomType, priceArgs.mealPlan,
                             priceResult.breakdown[i].isWeekend)
    /\ \A k \in 1 .. Len(dataFile.bookings) :
           LET b == dataFile.bookings[k]
           IN  b.isGroupBooking # JsonTrue =>
                   \A i \in 1 .. Len(b.priceBreakdown) :
                       b.priceBreakdown[i].rate =
                           TableRate(b.roomType, priceArgs.mealPlan,
                                     b.priceBreakdown[i].isWeekend)

\* a request with the plan 'AP' was priced and a booking with it is stored
C14_UnknownPlanPriced ==
    /\ Returned /\ ~Group /\ IsPrice(priceResult)
    /\ priceArgs.mealPlan = "AP"
    /\ priceResult.breakdown[1].rate = Rooms[priceArgs.roomType].weekday.ep
    /\ \E k \in 1 .. Len(dataFile.bookings) :
           dataFile.bookings[k].isGroupBooking # JsonTrue

\* the arguments calculatePrice was called with: directly, by the preview
\* handler and by the booking handler for a request body
DirectArgs ==
    <<priceArgs.checkIn, priceArgs.checkOut, priceArgs.roomType,
      priceArgs.mealPlan, Group>>
PreviewArgs(body) ==
    <<body.checkIn, body.checkOut,
      IF Truthy(body.roomType) THEN body.roomType ELSE "Deluxe Garden",
      IF Truthy(body.mealPlan) THEN body.mealPlan ELSE "EP",
      Truthy(body.isGroupBooking)>>
BookingArgs(body) ==
    <<body.checkIn, body.checkOut,
      IF body.isGroupBooking = JsonTrue THEN "Full Resort"
      ELSE SanitizeString(body.roomType),
      IF IsMealPlan(body.mealPlan) THEN body.mealPlan ELSE "EP",
      body.isGroupBooking = JsonTrue>>

\* the result of the call as a booking carries it
PriceOfBooking(b) ==
    [total |-> b.totalAmount, nights |-> b.nights, breakdown |-> b.priceBreakdown,
     roomType |-> b.roomType, mealPlan |-> b.mealPlan]

Previews == {r \in Reqs : IsCalculatePrice(reqs[r]) /\ Answered(r, 200)}
Booked == {r \in Reqs : IsPostBooking(reqs[r]) /\ Answered(r, 201)}

\* the successful calls so far, each with its arguments and its result
Calls ==
    (IF Succeeded THEN {[args |-> DirectArgs, result |-> priceResult]} ELSE {})
    \cup {[args |-> PreviewArgs(reqs[r].body),
           result |-> reqs[r].response.data[1]] : r \in Previews}
    \cup {[args |-> BookingArgs(reqs[r].body),
           result |-> PriceOfBooking(reqs[r].response.data[1])] : r \in Booked}

C16_PreviewEqualsPersisted ==
    \A p \in Previews, b \in Booked :
        (\A f \in {"checkIn", "checkOut", "roomType", "mealPlan", "isGroupBooking"} :
            reqs[p].body[f] = reqs[b].body[f])
        => /\ reqs[p].response.data[1].total = reqs[b].response.data[1].totalAmount
           /\ reqs[p].response.data[1].nights = reqs[b].response.data[1].nights

-----------------------------------------------------------------------------
(* Logout, unreadable session store, refusals: claims                      *)

Stored(token) ==
    \E i \in 1 .. Len(StoredSessions) : StoredSessions[i].token = token
LoggedOutAnswer == Response(200, "Logged out", <<>>)

\* C17: a deleteSession for a token that is not in the session store leaves
\* the stored sessions as they are, a second deleteSession for a token leaves
\* the store as the first left it, and POST /api/auth/logout answers success
\* in both cases.
C17_MissingTokenLeavesStore ==
    [][\A r \in Reqs :
        (IsLogout(reqs[r]) /\ reqs[r].pc = "writingSessions"
            /\ reqs'[r].pc = "done" /\ ~tornIO')
        => /\ reqs'[r].response = LoggedOutAnswer
           /\ ~Stored(reqs[r].token) => sessionsFile' = sessionsFile
      ]_vars

\* the same, between what deleteSession read and what it writes: for a token
\* that is not in the list read it writes the list back as read; for a
\* stored token it writes the list without that token and with every other
\* session; logout answers success whether or not the token was stored, and
\* without a token it answers success and leaves the store alone
C17_DeleteSessionNoOpIdempotent ==
    [][\A r \in Reqs : IsLogout(reqs'[r]) =>
        /\ (reqs[r].pc = "idle" /\ reqs'[r].pc = "done")
            => /\ reqs'[r].response = LoggedOutAnswer
               /\ sessionsFile' = sessionsFile
        /\ (reqs[r].pc = "readSessions" /\ reqs'[r].pc = "writingSessions"
                /\ sessWriting = {})
            => LET written == reqs'[r].sessions
                   token == reqs'[r].token
               IN  /\ \A i \in 1 .. Len(written) : written[i].token # token
                   /\ ~Stored(token) => written = StoredSessions
                   /\ \A i \in 1 .. Len(StoredSessions) :
                          StoredSessions[i].token # token
                          => \E j \in 1 .. Len(written) :
                                 written[j] = StoredSessions[i]
        /\ (reqs[r].pc = "writingSessions" /\ reqs'[r].pc = "done")
            => /\ reqs'[r].response = LoggedOutAnswer
               /\ sessWriting = {r}
                  => sessionsFile' = [parseable |-> TRUE,
                                      sessions |-> reqs[r].sessions]
      ]_vars

AuthenticationRequired == Response(401, "Authentication required", <<>>)
NotAuthenticated == Response(200, "anonymous", <<>>)
IsAuthCheck(req) == req.pathname = AuthCheckPath /\ req.method = "GET"
\* the token is in the sessions file as it stands, unexpired
StoredLive(token) ==
    /\ sessionsFile.parseable
    /\ \E i \in 1 .. Len(sessionsFile.sessions) :
           /\ sessionsFile.sessions[i].token = token
           /\ sessionsFile.sessions[i].expiresAt > now

\* C19: when the sessions file does not parse, or a read of it comes back
\* cut short, validateSession finds no session for any token: a protected
\* request is answered 401 and GET /api/auth/check reports not authenticated;
\* and a request passes the guard or is reported authenticated only if its
\* token is in the parseable content of the file, unexpired.
C19_StoreFailureFailsClosed ==
    [][\A r \in Reqs :
        (reqs[r].pc = "validate" /\ reqs'[r].pc # "validate") =>
            /\ (~sessionsFile.parseable \/ (~tornIO /\ tornIO'))
               => /\ reqs'[r].pc = "done"
                  /\ ~IsSession(reqs'[r].session)
                  /\ IsProtected(reqs[r].method, reqs[r].pathname)
                     => reqs'[r].response = AuthenticationRequired
                  /\ IsAuthCheck(reqs[r])
                     => reqs'[r].response = NotAuthenticated
            /\ ( \/ reqs'[r].pc = "readData"
                 \/ IsSession(reqs'[r].session)
                 \/ (IsAuthCheck(reqs[r]) /\ reqs'[r].response # NotAuthenticated) )
               => StoredLive(reqs[r].token)
      ]_vars

\* the sessions file no longer parses, and a protected request carrying the
\* unexpired token of an answered login was refused with 401
C19_RefusedOnUnparseableStore ==
    /\ ~sessionsFile.parseable
    /\ \E l, g \in Reqs :
           /\ IsLogin(reqs[l]) /\ Answered(l, 200)
           /\ IsProtected(reqs[g].method, reqs[g].pathname)
           /\ reqs[g].token = l
           /\ now < reqs[l].expiresAt
           /\ ~LogoutAsked(l)
           /\ reqs[g].pc = "done" /\ reqs[g].response = AuthenticationRequired

InvalidCredentials == Response(401, "Invalid credentials", <<>>)
Protected(r) == IsProtected(reqs[r].method, reqs[r].pathname)
Refused(r) == Answered(r, 401)

\* C20 as stated: every refusal of an authentication failure is the same
\* response, status and body, whether a protected request's token was
\* missing, never issued or expired, or a login carried a wrong password.
C20_AllRefusalsIdentical ==
    \A r, q \in Reqs :
        (Refused(r) /\ Refused(q)) => reqs[r].response = reqs[q].response

\* C20: a protected request whose token is missing, was never issued or has
\* expired is answered with one and the same response, 401 'Authentication
\* required'; a login with a wrong password is answered with status 401 as
\* well, with the message 'Invalid credentials'.
C20_RefusalsUniformPerEndpoint ==
    [][\A r \in Reqs :
        (reqs[r].pc \in {"idle", "validate"}
            /\ reqs'[r].pc \notin {"idle", "validate"}) =>
        LET token == reqs'[r].token
        IN  /\ ( /\ IsProtected(reqs'[r].method, reqs'[r].pathname)
                 /\ \/ token \in {NoToken, ForgedToken}
                    \/ token \in IssuedTokens /\ now >= reqs[token].expiresAt )
               => /\ reqs'[r].pc = "done"
                  /\ reqs'[r].response = AuthenticationRequired
            /\ (IsLogin(reqs'[r]) /\ reqs'[r].body.password # ADMIN_PASSWORD)
               => /\ reqs'[r].pc = "done"
                  /\ reqs'[r].response = InvalidCredentials
      ]_vars

\* a request without a token and one with a token never issued were refused
\* at the guard, and a login with a wrong password was refused
C20_ThreeKindsRefused ==
    \E l, g, h \in Reqs :
        /\ IsLogin(reqs[l]) /\ reqs[l].body.password # ADMIN_PASSWORD
        /\ Refused(l)
        /\ Protected(g) /\ reqs[g].token = NoToken /\ Refused(g)
        /\ Protected(h) /\ reqs[h].token = ForgedToken /\ Refused(h)
        /\ reqs[g].response = reqs[h].response
        /\ reqs[l].response # reqs[g].response

-----------------------------------------------------------------------------
(* Credential headers: claims                                              *)

\* the values of the cookies named admin_token, in header order
AdminTokenCookies(headers) ==
    SelectSeq(headers.cookie, LAMBDA c : c.name = "admin_token")
HasBearer(headers) == headers.authorization.scheme = "Bearer"
Asks(r) == reqs[r].pc # "idle" /\ ~IsLogin(reqs[r])

\* C18: getTokenFromRequest returns the token of the Authorization: Bearer
\* header whenever that header is present, the value of the admin_token
\* cookie only when there is no Bearer header, and no token when the request
\* carries neither a Bearer header nor an admin_token cookie.
C18_BearerThenCookieElseNone ==
    \A r \in Reqs : Asks(r) =>
        LET h == reqs[r].headers
        IN  reqs[r].token =
                IF HasBearer(h) THEN h.authorization.value
                ELSE IF AdminTokenCookies(h) # <<>>
                THEN AdminTokenCookies(h)[1].value
                ELSE NoToken

\* the same, for requests whose cookies have no name that merely ends in
\* admin_token
C18_WellNamedCookies ==
    \A r \in Reqs :
        ( /\ Asks(r)
          /\ \A i \in 1 .. Len(reqs[r].headers.cookie) :
                 reqs[r].headers.cookie[i].name # "old_admin_token" )
        => LET h == reqs[r].headers
           IN  reqs[r].token =
                   IF HasBearer(h) THEN h.authorization.value
                   ELSE IF AdminTokenCookies(h) # <<>>
                   THEN AdminTokenCookies(h)[1].value
                   ELSE NoToken

-----------------------------------------------------------------------------
(* Rate limiting: claims                                                   *)

\* the requests of the log that fall in the window (start, start + 60 000]
Within(log, start) ==
    {i \in 1 .. Len(log) :
        log[i].time > start /\ log[i].time <= start + RATE_LIMIT_WINDOW_MS}
ServedWithin(log, start) == {i \in Within(log, start) : ~log[i].limited}
Instants == {k * RateTickMs : k \in 0 .. 2 * MaxRateTicks}

\* C21: a request is refused with 429 exactly when, counting itself, more
\* than 100 requests of its IP, served or refused, fall within the preceding
\* 60 000 ms; a refused request reaches no handler; the requests and the Map
\* entries of other IPs are untouched; and so no IP has more than 100 requests
\* served in any window of 60 000 ms.
C21_HundredPerMinutePerIp ==
    [][\A ip \in ClientIPs : arrivals'[ip] # arrivals[ip] =>
        LET log == arrivals'[ip]
            request == log[Len(log)]
        IN  /\ request.time = clockMs
            /\ request.limited <=>
                   Cardinality(Within(log, clockMs - RATE_LIMIT_WINDOW_MS))
                       > RATE_LIMIT_MAX_REQUESTS
            /\ UNCHANGED serverVars
            /\ \A other \in ClientIPs \ {ip} :
                   /\ arrivals'[other] = arrivals[other]
                   /\ other \in DOMAIN rateLimitStore
                      => rateLimitStore'[other] = rateLimitStore[other]
            /\ \A t \in Instants :
                   Cardinality(ServedWithin(log, t - RATE_LIMIT_WINDOW_MS))
                       <= RATE_LIMIT_MAX_REQUESTS
      ]_vars

\* one IP had a request refused while another IP was served at the same
\* instant, and was itself served again once its window had moved on
C21_RefusedThenServedAgain ==
    LET burst == arrivals["10.0.0.1"]
        other == arrivals["10.0.0.2"]
    IN  \E i, j \in 1 .. Len(burst) :
            /\ i < j
            /\ burst[i].limited
            /\ ~burst[j].limited
            /\ other # <<>>
            /\ other[1].time = burst[i].time
            /\ ~other[1].limited

-----------------------------------------------------------------------------
(* Validation before storage: claims                                       *)

\* a date string in YYYY-MM-DD form that names a day of the calendar
IsCalendarDate(value) == value >= 0 /\ value < DayOverflow
\* the local calendar day of the server at time t
LocalDay(zone, t) == LocalTime(zone, t) \div MinPerDay

\* the booking body is valid: name, phone, both dates, check-in not in the
\* past, and the room type unless the booking is a group booking
ValidBooking(zone, t, body) ==
    /\ IsString(body.guestName, 2, 100)
    /\ IsPhone(body.guestPhone)
    /\ IsCalendarDate(body.checkIn) /\ IsCalendarDate(body.checkOut)
    /\ body.checkIn >= LocalDay(zone, t)
    /\ body.isGroupBooking = JsonTrue \/ IsRoomType(SanitizeString(body.roomType))
ValidInquiry(body) ==
    /\ IsString(body.name, 2, 100)
    /\ IsPhone(body.phone)
    /\ IsString(body.message, 10, 2000)
Records == Len(dataFile.bookings) + Len(dataFile.inquiries)

\* C22: a POST /api/bookings whose guest name, phone, check-in or check-out
\* date or (unless it is a group booking) room type is invalid, or whose
\* check-in is in the past, is answered 400, and a POST /api/inquiries with
\* an invalid name, phone or message likewise; neither changes the store;
\* the store changes only for a request that passed every check.
C22_InvalidIsRefusedAndNotStored ==
    [][/\ \A r \in Reqs : (reqs[r].pc = "idle" /\ reqs'[r].pc # "idle") =>
            /\ ( \/ IsPostBooking(reqs'[r])
                    /\ ~ValidBooking(tz, now, reqs'[r].body)
                 \/ IsPostInquiry(reqs'[r]) /\ ~ValidInquiry(reqs'[r].body) )
               => /\ reqs'[r].pc = "done"
                  /\ reqs'[r].response.status = 400
       /\ dataFile' # dataFile
          => \E r \in Reqs :
                 /\ reqs[r].pc = "writing"
                 /\ reqs'[r].pc = "done"
                 /\ \/ IsPostBooking(reqs[r])
                       /\ IsCalendarDate(reqs[r].body.checkIn)
                       /\ IsCalendarDate(reqs[r].body.checkOut)
                    \/ IsPostInquiry(reqs[r]) /\ ValidInquiry(reqs[r].body)
      ]_vars

\* the same, for requests whose ten-character date strings that parse are
\* calendar dates
C22_CalendarDatesOnly ==
    [][/\ \A r \in Reqs : (reqs[r].pc = "idle" /\ reqs'[r].pc # "idle") =>
            /\ ( \/ /\ IsPostBooking(reqs'[r])
                    /\ reqs'[r].body.checkIn < DayOverflow
                    /\ reqs'[r].body.checkOut < DayOverflow
                    /\ ~ValidBooking(tz, now, reqs'[r].body)
                 \/ IsPostInquiry(reqs'[r]) /\ ~ValidInquiry(reqs'[r].body) )
               => /\ reqs'[r].pc = "done"
                  /\ reqs'[r].response.status = 400
      ]_vars

-----------------------------------------------------------------------------
(* Booking updates: claims                                                 *)

IsPut(req) == req.method = "PUT" /\ IsBookingPath(req.pathname)
\* the PUT has changed its copy of the bookings and called writeData, or has
\* answered 200 after it
Updating(r) ==
    /\ IsPut(reqs[r])
    /\ \/ reqs[r].pc \in {"awaitLock", "writing"}
       \/ Answered(r, 200)
\* the booking the PUT addressed, in the data it wrote or is about to write
UpdatedBy(r) ==
    reqs[r].data.bookings[FindIndex(reqs[r].data.bookings, reqs[r].pathname.id)]

\* C23: a PUT /api/bookings/:id that updates a booking runs under the
\* session its token resolved to and sets updatedBy to that session's
\* username, in the data it writes and in its answer; and every updatedBy in
\* the bookings file is the username of the session of such a PUT.
C23_UpdatedBySessionUser ==
    program = SECURE =>
        /\ \A r \in Reqs : Updating(r) =>
               /\ IsSession(reqs[r].session)
               /\ reqs[r].session.token = reqs[r].token
               /\ UpdatedBy(r).updatedBy = reqs[r].session.username
               /\ Answered(r, 200)
                  => reqs[r].response.data[1].updatedBy = reqs[r].session.username
        /\ \A i \in 1 .. Len(dataFile.bookings) :
               "updatedBy" \in DOMAIN dataFile.bookings[i]
               => \E r \in Reqs :
                      /\ Updating(r)
                      /\ reqs[r].pathname.id = dataFile.bookings[i].id
                      /\ dataFile.bookings[i].updatedBy = reqs[r].session.username

\* a PUT with the token of a login was answered 200 and its booking is in
\* the file, confirmed and signed with the admin's name
C23_ConfirmedByAdmin ==
    \E r \in Reqs :
        /\ IsPut(reqs[r]) /\ Answered(r, 200)
        /\ reqs[r].token \in IssuedTokens
        /\ InFile(reqs[r].pathname.id)
        /\ StoredBooking(reqs[r].pathname.id).status = "Confirmed"
        /\ StoredBooking(reqs[r].pathname.id).updatedBy = ADMIN_USERNAME

UpdateFields == {"status", "updatedAt", "updatedBy"}
\* new is old with at most the three update fields set or changed
OnlyUpdateFieldsDiffer(old, new) ==
    /\ DOMAIN new = DOMAIN old \cup UpdateFields
    /\ \A f \in DOMAIN old \ UpdateFields : new[f] = old[f]

\* C28: the write of a successful PUT /api/bookings/:id changes, in the
\* bookings file, only the status, updatedAt and updatedBy of the addressed
\* booking: its other fields, every other booking and every inquiry are as
\* they were, whatever else the body carries; a PUT for an unknown id is
\* answered 404 and changes nothing.
C28_PutChangesOnlyUpdateFields ==
    [][\A r \in Reqs : IsPut(reqs[r]) =>
        /\ (reqs[r].pc = "writing" /\ reqs'[r].pc = "done" /\ ~tornIO)
           => LET index == FindIndex(dataFile.bookings, reqs[r].pathname.id)
              IN  /\ dataFile'.inquiries = dataFile.inquiries
                  /\ Len(dataFile'.bookings) = Len(dataFile.bookings)
                  /\ \A i \in 1 .. Len(dataFile.bookings) :
                         IF i = index
                         THEN OnlyUpdateFieldsDiffer(dataFile.bookings[i],
                                                     dataFile'.bookings[i])
                         ELSE dataFile'.bookings[i] = dataFile.bookings[i]
        /\ (reqs[r].pc = "readData" /\ reqs'[r].pc # "readData"
                /\ dataWriting = {}
                /\ FindIndex(dataFile.bookings, reqs[r].pathname.id) = 0)
           => /\ reqs'[r].pc = "done"
              /\ reqs'[r].response.status = 404
              /\ dataFile' = dataFile
      ]_vars

\* the same frame, between what the PUT read and what it writes: a PUT that
\* read the file whole changes in its copy only the three fields of the
\* addressed booking, and the file then holds that copy
C28_FrameOfTheCopy ==
    [][\A r \in Reqs : IsPut(reqs[r]) =>
        /\ (reqs[r].pc = "readData" /\ reqs'[r].pc = "awaitLock"
                /\ dataWriting = {})
           => LET index == FindIndex(dataFile.bookings, reqs[r].pathname.id)
                  written == reqs'[r].data
              IN  /\ index # 0
                  /\ written.inquiries = dataFile.inquiries
                  /\ Len(written.bookings) = Len(dataFile.bookings)
                  /\ \A i \in 1 .. Len(dataFile.bookings) :
                         IF i = index
                         THEN /\ OnlyUpdateFieldsDiffer(dataFile.bookings[i],
                                                        written.bookings[i])
                              /\ written.bookings[i].status = reqs[r].body.status
                         ELSE written.bookings[i] = dataFile.bookings[i]
        /\ (reqs[r].pc = "writing" /\ reqs'[r].pc = "done")
           => dataFile' = reqs[r].data
      ]_vars

-----------------------------------------------------------------------------
(* Session lifecycle: claims                                               *)

Front(seq) == SubSeq(seq, 1, Len(seq) - 1)
Last(seq) == seq[Len(seq)]

\* C24: a createSession with no other session operation in progress fixes
\* expiresAt = now + sessionTTL when it is called, and writes the stored
\* sessions whose expiry is still in the future, in their order, followed by
\* one new session with its token, the username given and that expiresAt;
\* the store then holds exactly that list, with none of the earlier sessions
\* that had expired in it, and the login returns the token.
C24_CreateSessionAppendsAndEvicts ==
    [][\A r \in Reqs : IsLogin(reqs'[r]) =>
        /\ (reqs[r].pc = "idle" /\ reqs'[r].pc = "readSessions")
           => reqs'[r].expiresAt = now + SessionTTL
        /\ (reqs[r].pc = "readSessions" /\ reqs'[r].pc = "writingSessions"
                /\ sessWriting = {})
           => LET written == reqs'[r].sessions
              IN  /\ written # <<>>
                  /\ Front(written) =
                         SelectSeq(StoredSessions, LAMBDA x : x.expiresAt > now)
                  /\ Last(written).token = r
                  /\ Last(written).username = reqs[r].body.username
                  /\ Last(written).expiresAt = reqs[r].expiresAt
        /\ (reqs[r].pc = "writingSessions" /\ reqs'[r].pc = "done"
                /\ sessWriting = {r})
           => /\ sessionsFile' = [parseable |-> TRUE, sessions |-> reqs[r].sessions]
              /\ Front(reqs[r].sessions) = StoredSessions
                 => \A i \in 1 .. Len(StoredSessions') - 1 :
                        StoredSessions'[i].expiresAt > Last(reqs[r].sessions).createdAt
              /\ reqs'[r].response = Response(200, "Login successful", <<r>>)
      ]_vars

\* a login was answered after an earlier login's session had expired, and the
\* store holds the new session alone: the expired one was evicted
C24_ExpiredEvictedByLogin ==
    \E l, m \in Reqs :
        /\ IsLogin(reqs[l]) /\ Answered(l, 200)
        /\ IsLogin(reqs[m]) /\ Answered(m, 200)
        /\ reqs[l].expiresAt <= now
        /\ reqs[m].expiresAt = now + SessionTTL
        /\ ~LogoutAsked(l)
        /\ ~tornIO
        /\ Len(StoredSessions) = 1
        /\ StoredSessions[1].token = m
        /\ StoredSessions[1].expiresAt = reqs[m].expiresAt

StoredExpired(token) ==
    /\ sessionsFile.parseable
    /\ \E i \in 1 .. Len(sessionsFile.sessions) :
           /\ sessionsFile.sessions[i].token = token
           /\ sessionsFile.sessions[i].expiresAt <= now

\* C25: a session leaves the session store on logout, and on the first
\* validateSession lookup of its token after its expiry: once a request
\* presenting a stored, expired token has been through validateSession, no
\* session with that token is in the store.
C25_ExpiredRemovedOnAccess ==
    [][\A r \in Reqs :
          (/\ reqs[r].pc = "validate" /\ reqs'[r].pc # "validate"
           /\ StoredExpired(reqs[r].token))
          => \A i \in 1 .. Len(sessionsFile'.sessions) :
                 sessionsFile'.sessions[i].token # reqs[r].token
      ]_vars

\* what the lookup of an expired token does: it returns no session, so the
\* request is refused or reported anonymous, and the sessions file is left
\* as it was, the expired session still in it
C25_ExpiredRefusedAndKept ==
    [][\A r \in Reqs :
          (/\ reqs[r].pc = "validate" /\ reqs'[r].pc # "validate"
           /\ StoredExpired(reqs[r].token)
           /\ ~tornIO')
          => /\ reqs'[r].session = NoSession
             /\ sessionsFile' = sessionsFile
      ]_vars

\* C26: a session's expiresAt is the time of the createSession call plus the
\* session TTL; the value is fixed when the call starts, every stored session
\* carries the value its createSession fixed, and no step changes the
\* expiresAt stored for a token: not a lookup, not a request served with the
\* session, not a later login, not a logout.
C26_ExpiryFixedAtCreation ==
    [][/\ \A r \in Reqs :
              /\ (IsLogin(reqs'[r]) /\ reqs[r].pc = "idle"
                      /\ reqs'[r].pc = "readSessions")
                 => reqs'[r].expiresAt = now + SessionTTL
              /\ reqs[r].pc # "idle" => reqs'[r].expiresAt = reqs[r].expiresAt
       /\ \A j \in 1 .. Len(StoredSessions') :
              LET session == StoredSessions'[j]
              IN  /\ session.token \in Reqs
                  /\ IsLogin(reqs'[session.token])
                  /\ session.expiresAt = reqs'[session.token].expiresAt
                  /\ \A i \in 1 .. Len(StoredSessions) :
                         StoredSessions[i].token = session.token
                         => StoredSessions[i].expiresAt = session.expiresAt
      ]_vars

\* a session was validated for a request, a later login was answered, and
\* the session is stored with the expiry its own login fixed
C26_UsedAndStillExpiringAsCreated ==
    \E l, g, m \in Reqs :
        /\ l # m
        /\ IsLogin(reqs[l]) /\ Answered(l, 200)
        /\ IsLogin(reqs[m]) /\ Answered(m, 200)
        /\ reqs[g].pc = "done"
        /\ IsSession(reqs[g].session) /\ reqs[g].session.token = l
        /\ reqs[l].expiresAt = StartNow + SessionTTL
        /\ \E i, j \in 1 .. Len(StoredSessions) :
               /\ StoredSessions[i].token = l
               /\ StoredSessions[i].expiresAt = reqs[l].expiresAt
               /\ StoredSessions[j].token = m

\* C27: once the deleteSession(t) of a logout has completed, validateSession(t)
\* returns absent in every later state, whatever createSession and
\* deleteSession calls of other requests ran alongside: the session of an
\* answered logout is not in the store unexpired.  (Stated for reads and
\* writes of the sessions file that were never torn.)
C27_LogoutIsFinal ==
    \A q \in Reqs :
        (/\ IsLogout(reqs[q]) /\ reqs[q].pc = "done"
         /\ reqs[q].token \in Reqs
         /\ ~tornIO)
        => ~StoredLive(reqs[q].token)

\* what holds of logout: when deleteSession's write returns, the file it
\* wrote holds no session with the token
C27_RemovedWhenLogoutReturns ==
    [][\A q \in Reqs :
          (/\ IsLogout(reqs[q])
           /\ reqs[q].pc = "writingSessions" /\ reqs'[q].pc = "done"
           /\ sessionsFile'.parseable)
          => \A i \in 1 .. Len(sessionsFile'.sessions) :
                 sessionsFile'.sessions[i].token # reqs[q].token
      ]_vars

-----------------------------------------------------------------------------
(* Booking status: claims                                                  *)

Statuses == {"Pending", "Confirmed", "Cancelled"}

-----------------------------------------------------------------------------
(* The write lock under failing writes: claims                             *)

Started(r) == \E i \in 1 .. Len(writeStarts) : writeStarts[i] = r

\* C30: provided every file write settles, every writeData call starts its
\* own file write and returns, whether the writes before it succeeded or
\* failed: a handler that has called writeData is eventually answered, its
\* write started.
C30_EveryWriterReturns ==
    \A r \in 1 .. LockReqs :
        (reqs[r].pc = "awaitLock") ~> (reqs[r].pc = "done" /\ Started(r))

\* a writer that queued behind a writer whose write then failed has written
\* and been answered
C30_WroteBehindFailedWriter ==
    \E p, q \in 1 .. LockReqs :
        /\ reqs[p].pc = "done" /\ reqs[p].response.status = 500
        /\ reqs[q].prevLock = p
        /\ writeCalls = <<p, q>>
        /\ writeStarts = <<p, q>>
        /\ Answered(q, 201)
        /\ dataFile = reqs[q].data

====
